---- MODULE Spec2Model ----
(***************************************************************************)
(* Verification model of the handwriting-practice scoring engine           *)
(* (src/src/core/ScoreManager.ts) and of the event emitter it extends      *)
(* (src/src/utils/EventEmitter.ts).                                        *)
(*                                                                         *)
(* Numbers.  A JavaScript number is modelled as a decimal fixed-point      *)
(* value: the integer v stands for v / Scale.  The format is a small       *)
(* floating format with the same shape as IEEE doubles: it has a largest   *)
(* finite value MAX_VALUE, a smallest positive value MIN_VALUE (one unit), *)
(* the two infinities and NaN, and 1 / MIN_VALUE overflows to Infinity     *)
(* exactly as 1 / Number.MIN_VALUE does.  Every arithmetic operator of the *)
(* source is translated to the operator of that name below (FAdd for +,    *)
(* FDiv for /, FMin for Math.min, ...), so that overflow, division by zero *)
(* and NaN propagate as they do in the program.                            *)
(***************************************************************************)
EXTENDS Integers, Sequences, FiniteSets, TLC

VARIABLES
    events,       \* the ScoreManager's listener map (EventEmitter.events)
    argExample,   \* the caller's example drawing
    argAttempts,  \* the caller's attempts list
    argBoxes,     \* the caller's constraint boxes, << >> when it passes none
    outcome,      \* << >>, or the outcome of the last calculateScore call
    notified,     \* the callbacks the last call's emit invoked, in order
    firstCall,    \* << >>, or the arguments and the scores of the first call made
    probe,        \* the argument of a helper applied on its own
    probed,       \* << >>, or that helper's result
    animation,    \* the AnimationController, the frames it has requested, and
                  \* the position of its loop
    taskLog,      \* which handles were cancelled or done, and the last invocation
    drawingManager, \* the DrawingManager and the stroke objects it has created
    clock,        \* the value Date.now() returns
    handed,       \* << >>, or the last Drawing getDrawingData returned and its
                  \* value at that moment
    storage,      \* the StorageManager, localStorage, and the promise its
                  \* last call returned
    storageLog,   \* the last call made to the StorageManager, and per id the
                  \* scores saved since the exercise was created
    emitter,      \* the listener map of an EventEmitter used on its own
    emitterLog,   \* the last call made to that emitter and what it did
    game,         \* the GameManager with its UIManager and DrawingManager, and
                  \* the animations and timers the UIManager has started
    gameLog,      \* the last event the GameManager handled
    animator,     \* an ExampleDrawingAnimator with the task it has scheduled
    animatorLog,  \* the events it has emitted and the time between strokes
    calls         \* the calls of the StorageManager made so far, each with the
                  \* promise its async function is waiting for

vars == << events, argExample, argAttempts, argBoxes, outcome, notified, firstCall, probe, probed,
          animation, taskLog, drawingManager, clock, handed, storage, storageLog,
          emitter, emitterLog, game, gameLog, animator, animatorLog,
          calls >>

\* the variables of the scoring engine, of the AnimationController, of the
\* DrawingManager, of the StorageManager and of the EventEmitter
scoreVars == << events, argExample, argAttempts, argBoxes, outcome, notified, firstCall,
                probe, probed >>
animationVars == << animation, taskLog >>
captureVars == << drawingManager, clock, handed >>
storageVars == << storage, storageLog >>
emitterVars == << emitter, emitterLog >>
gameVars == << game, gameLog >>
animatorVars == << animator, animatorLog >>
callVars == << calls >>

\* the variables of the components other than the scoring engine, other
\* than the AnimationController, other than the DrawingManager, other than
\* the StorageManager, and other than the EventEmitter
componentVars ==
    << animationVars, captureVars, storageVars, emitterVars, gameVars, animatorVars, callVars >>
notAnimationVars ==
    << scoreVars, captureVars, storageVars, emitterVars, gameVars, animatorVars, callVars >>
notCaptureVars ==
    << scoreVars, animationVars, storageVars, emitterVars, gameVars, animatorVars, callVars >>
notStorageVars ==
    << scoreVars, animationVars, captureVars, emitterVars, gameVars, animatorVars, callVars >>
notEmitterVars ==
    << scoreVars, animationVars, captureVars, storageVars, gameVars, animatorVars, callVars >>
notGameVars ==
    << scoreVars, animationVars, captureVars, storageVars, emitterVars, animatorVars, callVars >>
notAnimatorVars ==
    << scoreVars, animationVars, captureVars, storageVars, emitterVars, gameVars, callVars >>
notCallVars ==
    << scoreVars, animationVars, captureVars, storageLog, emitterVars, gameVars,
       animatorVars >>

(***************************************************************************)
(* The number format                                                       *)
(***************************************************************************)
\* fixed-point resolution: v stands for v / Scale
Scale == 10 ^ 3

\* Number.MAX_VALUE: the largest finite number of the format
MAX_VALUE == 999999

\* Number.MIN_VALUE: the smallest POSITIVE number of the format (not the
\* most negative one)
MIN_VALUE == 1

Infinity == MAX_VALUE + 1
NegInfinity == -Infinity
NaN == MAX_VALUE + 2

IsNaN(a) == a = NaN
IsFinite(a) == a >= -MAX_VALUE /\ a <= MAX_VALUE

Abs(n) == IF n < 0 THEN -n ELSE n
Sign(n) == IF n < 0 THEN -1 ELSE 1

\* an integer of the program (a count, a literal) as a number
Num(n) == n * Scale

\* a decimal literal of the program: Dec(75, 100) is 0.75
Dec(n, d) == (n * Scale) \div d

\* overflow of a finite raw result to the infinities
Overflow(v) == IF v > MAX_VALUE THEN Infinity ELSE IF v < -MAX_VALUE THEN NegInfinity ELSE v

FNeg(a) == IF IsNaN(a) THEN NaN ELSE -a

\* a + b
FAdd(a, b) ==
    IF IsNaN(a) \/ IsNaN(b) THEN NaN
    ELSE IF a = Infinity THEN (IF b = NegInfinity THEN NaN ELSE Infinity)
    ELSE IF a = NegInfinity THEN (IF b = Infinity THEN NaN ELSE NegInfinity)
    ELSE IF b = Infinity \/ b = NegInfinity THEN b
    ELSE Overflow(a + b)

\* a - b
FSub(a, b) == FAdd(a, FNeg(b))

\* |a| * |b| / Scale for finite a, b, rounded to nearest, without leaving
\* the 32-bit range of the checker's integers
MulMagnitude(m, n) ==
    LET hi == (m \div Scale) * n
        lo == ((m % Scale) * n + Scale \div 2) \div Scale
    IN  IF hi > MAX_VALUE THEN Infinity ELSE Overflow(hi + lo)

\* a * b
FMul(a, b) ==
    IF IsNaN(a) \/ IsNaN(b) THEN NaN
    ELSE IF ~IsFinite(a) \/ ~IsFinite(b)
         THEN (IF a = 0 \/ b = 0 THEN NaN ELSE Sign(a) * Sign(b) * Infinity)
    ELSE Sign(a) * Sign(b) * MulMagnitude(Abs(a), Abs(b))

\* a / b
FDiv(a, b) ==
    IF IsNaN(a) \/ IsNaN(b) THEN NaN
    ELSE IF ~IsFinite(a) THEN (IF ~IsFinite(b) THEN NaN ELSE Sign(a) * Sign(b) * Infinity)
    ELSE IF ~IsFinite(b) THEN 0
    ELSE IF b = 0 THEN (IF a = 0 THEN NaN ELSE Sign(a) * Infinity)
    ELSE Sign(a) * Sign(b) * Overflow((Abs(a) * Scale + Abs(b) \div 2) \div Abs(b))

\* comparisons: every comparison with NaN is false
FLt(a, b) == ~IsNaN(a) /\ ~IsNaN(b) /\ a < b
FGt(a, b) == FLt(b, a)
FLe(a, b) == ~IsNaN(a) /\ ~IsNaN(b) /\ a <= b
FGe(a, b) == FLe(b, a)

\* Math.min, Math.max: NaN if either argument is NaN
FMin(a, b) == IF IsNaN(a) \/ IsNaN(b) THEN NaN ELSE IF a < b THEN a ELSE b
FMax(a, b) == IF IsNaN(a) \/ IsNaN(b) THEN NaN ELSE IF a > b THEN a ELSE b

\* Math.abs
FAbs(a) == IF IsNaN(a) THEN NaN ELSE Abs(a)

\* Math.round: the nearest integer, halves towards +Infinity
FRound(a) ==
    IF ~IsFinite(a) THEN a
    ELSE ((2 * a + Scale) \div (2 * Scale)) * Scale

\* Math.floor
FFloor(a) == IF ~IsFinite(a) THEN a ELSE (a \div Scale) * Scale

\* floor of the square root of a natural number (Newton's iteration)
RECURSIVE SqrtIter(_, _)
SqrtIter(n, x) ==
    LET y == (x + n \div x) \div 2
    IN  IF y >= x THEN x ELSE SqrtIter(n, y)

ISqrt(n) == IF n < 2 THEN n ELSE SqrtIter(n, n)

\* Math.sqrt
FSqrt(a) ==
    IF IsNaN(a) THEN NaN
    ELSE IF a < 0 THEN NaN
    ELSE IF a = Infinity THEN Infinity
    ELSE ISqrt(a * Scale)

\* e^(-n) for n = 0, 1, 2, ... in millionths; beyond the table it is 0
ExpNegInt == << 1000000, 367879, 135335, 49787, 18316, 6738, 2479, 912,
                335, 123, 45, 17, 6, 2, 1 >>

\* the Taylor series of e^(-f / Scale) for 0 <= f < Scale, in millionths:
\* term is the k-1'th term, acc the sum so far
RECURSIVE ExpSeries(_, _, _, _)
ExpSeries(f, k, term, acc) ==
    IF term = 0 \/ k > 12 THEN acc
    ELSE LET next == (0 - term * f) \div (Scale * k)
         IN  ExpSeries(f, k + 1, next, acc + next)

\* e^(-x / Scale) for a finite x >= 0; underflows to 0
ExpNeg(x) ==
    LET n == x \div Scale
        frac == (ExpSeries(x % Scale, 1, 1000000, 1000000) + Scale \div 2) \div Scale
    IN  IF n + 1 > Len(ExpNegInt) THEN 0
        ELSE (frac * ExpNegInt[n + 1] + 500000) \div 1000000

\* Math.exp
FExp(a) ==
    IF IsNaN(a) THEN NaN
    ELSE IF a = Infinity THEN Infinity
    ELSE IF a = NegInfinity THEN 0
    ELSE IF a <= 0 THEN ExpNeg(-a)
    ELSE FDiv(Num(1), ExpNeg(a))

\* the binary exponent k and mantissa m of a finite a > 0:
\* a = m * 2^k with Scale <= m < 2 * Scale
RECURSIVE Mantissa(_, _)
Mantissa(m, k) ==
    IF m >= 2 * Scale THEN Mantissa(m \div 2, k + 1)
    ELSE IF m < Scale THEN Mantissa(m * 2, k - 1)
    ELSE << m, k >>

\* ln(m / Scale) for Scale <= m < 2 * Scale, in millionths, by the series
\* 2 * (z + z^3/3 + z^5/5 + ...), z = (m - Scale) / (m + Scale) < 1/3
LogMantissa(m) ==
    LET z  == ((m - Scale) * 10000) \div (m + Scale)
        z2 == (z * z) \div 10000
        z3 == (z * z2) \div 10000
        z5 == (z3 * z2) \div 10000
        z7 == (z5 * z2) \div 10000
        z9 == (z7 * z2) \div 10000
    IN  200 * (z + z3 \div 3 + z5 \div 5 + z7 \div 7 + z9 \div 9)

\* Math.log
FLog(a) ==
    IF IsNaN(a) THEN NaN
    ELSE IF a < 0 THEN NaN
    ELSE IF a = 0 THEN NegInfinity
    ELSE IF a = Infinity THEN Infinity
    ELSE LET mk == Mantissa(a, 0)
             v  == mk[2] * 693147 + LogMantissa(mk[1])
         IN  Sign(v) * ((Abs(v) + 500) \div 1000)

\* Math.pow(a, 2)
FSquare(a) == FMul(a, a)

(***************************************************************************)
(* Drawings (src/unnamed/part_010).  A Point is [x, y], a StrokeData is    *)
(* [points, startTime, endTime], a DrawingData is [strokes, totalTime,     *)
(* width, height]; all fields are numbers.  The fields the scoring code    *)
(* only copies (timestamp, pressure, id, color, the stroke's width,        *)
(* created) are left out.                                                  *)
(***************************************************************************)
Point(x, y) == [x |-> Num(x), y |-> Num(y)]

StrokeData(points, startTime, endTime) ==
    [points |-> points, startTime |-> Num(startTime), endTime |-> Num(endTime)]

DrawingData(strokes, totalTime, width, height) ==
    [strokes |-> strokes, totalTime |-> Num(totalTime),
     width |-> Num(width), height |-> Num(height)]

ConstraintBoxSize(width, height) == [width |-> Num(width), height |-> Num(height)]

(***************************************************************************)
(* ScoreManager (src/src/core/ScoreManager.ts).  A local constant of the   *)
(* source that is read more than once is a parameter of a helper operator  *)
(* here (normalizeInBox for the body of normalizeDrawing once the bounding *)
(* box is known, and so on), so that it is computed once.                  *)
(***************************************************************************)
MAX_SCORE == 100

WEIGHTS == [accuracy |-> Dec(5, 10), strokes |-> Dec(25, 100), timing |-> Dec(25, 100)]

FEEDBACK ==
    [excellent |-> << "Excellent work! Your drawing is spot on!",
                      "Amazing job! Your handwriting is fantastic!",
                      "Perfect! You've mastered this drawing!" >>,
     veryGood  |-> << "Very good! Your drawing looks great!",
                      "Impressive work! Keep practicing!",
                      "Great job! You're getting better each time!" >>,
     good      |-> << "Good job! You're making progress!",
                      "Nice work! Keep practicing!",
                      "Well done! You're improving!" >>,
     fair      |-> << "Nice try! Keep practicing!",
                      "Good effort! Try to follow the example more closely!",
                      "Keep going! Practice makes perfect!" >>,
     needsWork |-> << "Keep practicing! You'll get better each time!",
                      "Good start! Try to follow the example more carefully!",
                      "Don't give up! Every practice helps you improve!" >>]

\* getAllPoints: the points of all strokes, in order
RECURSIVE getAllPointsFrom(_, _)
getAllPointsFrom(strokes, i) ==
    IF i > Len(strokes) THEN << >>
    ELSE strokes[i].points \o getAllPointsFrom(strokes, i + 1)

getAllPoints(drawing) == getAllPointsFrom(drawing.strokes, 1)

\* calculateDistance
calculateDistance(p1, p2) ==
    FSqrt(FAdd(FSquare(FSub(p2.x, p1.x)), FSquare(FSub(p2.y, p1.y))))

\* the loops of normalizeDrawing over all points: the running minimum and
\* maximum of a coordinate, from the given initial value
RECURSIVE MinOver(_, _, _, _)
MinOver(points, i, isX, acc) ==
    IF i > Len(points) THEN acc
    ELSE MinOver(points, i + 1, isX,
                 FMin(acc, IF isX THEN points[i].x ELSE points[i].y))

RECURSIVE MaxOver(_, _, _, _)
MaxOver(points, i, isX, acc) ==
    IF i > Len(points) THEN acc
    ELSE MaxOver(points, i + 1, isX,
                 FMax(acc, IF isX THEN points[i].x ELSE points[i].y))

\* the bounding box normalizeDrawing finds over the given points
boundingBoxOf(points) ==
    [minX |-> MinOver(points, 1, TRUE, MAX_VALUE),
     maxX |-> MaxOver(points, 1, TRUE, MIN_VALUE),
     minY |-> MinOver(points, 1, FALSE, MAX_VALUE),
     maxY |-> MaxOver(points, 1, FALSE, MIN_VALUE)]

boundingBox(drawing) == boundingBoxOf(getAllPoints(drawing))

\* the scale factor normalizeDrawing applies
scaleFactor(width, height) ==
    IF FGt(width, 0) /\ FGt(height, 0)
    THEN FMin(FDiv(Num(1), width), FDiv(Num(1), height))
    ELSE Num(1)

\* the normalized strokes normalizeDrawing builds
normalizeStrokes(strokes, minX, minY, scale) ==
    [s \in 1..Len(strokes) |->
        [points |->
            [i \in 1..Len(strokes[s].points) |->
                [x |-> FMul(FSub(strokes[s].points[i].x, minX), scale),
                 y |-> FMul(FSub(strokes[s].points[i].y, minY), scale)]],
         startTime |-> strokes[s].startTime,
         endTime |-> strokes[s].endTime]]

\* normalizeDrawing once the dimensions of the bounding box are known
normalizeToSize(drawing, box, width, height) ==
    [strokes |-> normalizeStrokes(drawing.strokes, box.minX, box.minY,
                                  scaleFactor(width, height)),
     totalTime |-> drawing.totalTime,
     width |-> Num(1),
     height |-> FDiv(height, width)]

\* normalizeDrawing once the bounding box is known
normalizeInBox(drawing, box) ==
    normalizeToSize(drawing, box, FSub(box.maxX, box.minX), FSub(box.maxY, box.minY))

\* normalizeDrawing
normalizeDrawing(drawing) ==
    IF Len(drawing.strokes) = 0
    THEN [strokes |-> << >>, totalTime |-> drawing.totalTime,
          width |-> drawing.width, height |-> drawing.height]
    ELSE normalizeInBox(drawing, boundingBox(drawing))

\* the inner loop of calculatePathSimilarity: the minimum distance from
\* attemptPoint to any example point
RECURSIVE minDistanceTo(_, _, _, _)
minDistanceTo(attemptPoint, examplePoints, i, minDistance) ==
    IF i > Len(examplePoints) THEN minDistance
    ELSE minDistanceTo(attemptPoint, examplePoints, i + 1,
                       FMin(minDistance, calculateDistance(attemptPoint, examplePoints[i])))

\* the outer loop of calculatePathSimilarity: the sum of the minimum distances
RECURSIVE totalMinDistance(_, _, _, _)
totalMinDistance(attemptPoints, examplePoints, i, totalDistance) ==
    IF i > Len(attemptPoints) THEN totalDistance
    ELSE totalMinDistance(attemptPoints, examplePoints, i + 1,
             FAdd(totalDistance,
                  minDistanceTo(attemptPoints[i], examplePoints, 1, MAX_VALUE)))

\* calculatePathSimilarity once the points of both drawings are collected
pointSetSimilarity(examplePoints, attemptPoints) ==
    IF Len(examplePoints) = 0 \/ Len(attemptPoints) = 0 THEN 0
    ELSE FExp(FMul(FNeg(FDiv(totalMinDistance(attemptPoints, examplePoints, 1, 0),
                             Num(Len(attemptPoints)))),
                   Num(5)))

\* calculatePathSimilarity, on normalized drawings
calculatePathSimilarity(example, attempt) ==
    IF Len(example.strokes) = 0 \/ Len(attempt.strokes) = 0 THEN 0
    ELSE pointSetSimilarity(getAllPoints(example), getAllPoints(attempt))

\* the loop of calculateConstraintAdherence: the number of points outside
RECURSIVE countOutside(_, _, _, _, _, _)
countOutside(points, i, leftBound, rightBound, topBound, bottomBound) ==
    IF i > Len(points) THEN 0
    ELSE (IF \/ FLt(points[i].x, leftBound)
             \/ FGt(points[i].x, rightBound)
             \/ FLt(points[i].y, topBound)
             \/ FGt(points[i].y, bottomBound)
          THEN 1 ELSE 0)
         + countOutside(points, i + 1, leftBound, rightBound, topBound, bottomBound)

\* calculateConstraintAdherence once the bounds of the box are known
adherenceWithin(points, leftBound, rightBound, topBound, bottomBound) ==
    IF Len(points) > 0
    THEN FSub(Num(1),
              FDiv(Num(countOutside(points, 1, leftBound, rightBound, topBound, bottomBound)),
                   Num(Len(points))))
    ELSE Num(1)

\* calculateConstraintAdherence, on the raw attempt
calculateConstraintAdherence(attempt, constraintBox) ==
    LET centerX == FDiv(attempt.width, Num(2))
        centerY == FDiv(attempt.height, Num(2))
    IN  adherenceWithin(getAllPoints(attempt),
                        FSub(centerX, FDiv(constraintBox.width, Num(2))),
                        FAdd(centerX, FDiv(constraintBox.width, Num(2))),
                        FSub(centerY, FDiv(constraintBox.height, Num(2))),
                        FAdd(centerY, FDiv(constraintBox.height, Num(2))))

\* the length of one stroke: the sum of the distances between consecutive points
RECURSIVE strokeLengthFrom(_, _)
strokeLengthFrom(points, i) ==
    IF i > Len(points) THEN 0
    ELSE FAdd(calculateDistance(points[i - 1], points[i]), strokeLengthFrom(points, i + 1))

\* the sum of a sequence of numbers
RECURSIVE SumFrom(_, _)
SumFrom(values, i) ==
    IF i > Len(values) THEN 0 ELSE FAdd(values[i], SumFrom(values, i + 1))

\* each value as a proportion of the total, 0 when the total is not positive
proportions(values, total) ==
    [s \in 1..Len(values) |->
        IF FGt(total, 0) THEN FDiv(values[s], total) ELSE 0]

\* calculateRelativeStrokeLengths
strokeLengths(drawing) ==
    [s \in 1..Len(drawing.strokes) |-> strokeLengthFrom(drawing.strokes[s].points, 2)]

relativeLengths(lengths) == proportions(lengths, SumFrom(lengths, 1))

calculateRelativeStrokeLengths(drawing) == relativeLengths(strokeLengths(drawing))

\* calculateRelativeStrokeDurations
strokeDurations(drawing) ==
    [s \in 1..Len(drawing.strokes) |->
        FSub(drawing.strokes[s].endTime, drawing.strokes[s].startTime)]

relativeDurations(durations) == proportions(durations, SumFrom(durations, 1))

calculateRelativeStrokeDurations(drawing) == relativeDurations(strokeDurations(drawing))

\* the comparison loops of compareStrokeLengths and compareStrokeTimingPatterns:
\* the sum of |a[i] - b[i]| over the first minLength entries
RECURSIVE totalDifferenceFrom(_, _, _, _)
totalDifferenceFrom(a, b, i, minLength) ==
    IF i > minLength THEN 0
    ELSE FAdd(FAbs(FSub(a[i], b[i])), totalDifferenceFrom(a, b, i + 1, minLength))

IntMin(a, b) == IF a < b THEN a ELSE b
IntMax(a, b) == IF a > b THEN a ELSE b

\* compareStrokeLengths once the relative lengths are known
compareLengthPatterns(exampleLengths, attemptLengths) ==
    LET minLength == IntMin(Len(exampleLengths), Len(attemptLengths))
        countDifference == Abs(Len(exampleLengths) - Len(attemptLengths))
    IN  IF minLength = 0 THEN 0
        ELSE FMax(0, FSub(Num(1),
                 FDiv(FAdd(totalDifferenceFrom(exampleLengths, attemptLengths, 1, minLength),
                           FMul(Num(countDifference), Dec(1, 10))),
                      Num(minLength))))

\* compareStrokeLengths
compareStrokeLengths(example, attempt) ==
    IF Len(example.strokes) = 0 \/ Len(attempt.strokes) = 0 THEN 0
    ELSE compareLengthPatterns(calculateRelativeStrokeLengths(example),
                               calculateRelativeStrokeLengths(attempt))

\* the stroke-count term of calculateStrokesScore
strokeCountScore(example, attempt) ==
    LET exampleStrokeCount == Len(example.strokes)
        attemptStrokeCount == Len(attempt.strokes)
        countDifference == Abs(exampleStrokeCount - attemptStrokeCount)
        maxStrokes == IntMax(exampleStrokeCount, attemptStrokeCount)
    IN  IF maxStrokes > 0
        THEN FMax(0, FSub(Num(1), FDiv(Num(countDifference), Num(maxStrokes))))
        ELSE Num(1)

\* calculateStrokesScore
calculateStrokesScore(example, attempt) ==
    FAdd(FMul(strokeCountScore(example, attempt), Dec(5, 10)),
         FMul(compareStrokeLengths(example, attempt), Dec(5, 10)))

\* compareTimingRatio
compareTimingRatio(example, attempt) ==
    IF FLe(example.totalTime, 0) \/ FLe(attempt.totalTime, 0) THEN Dec(5, 10)
    ELSE FExp(FNeg(FSquare(FLog(FDiv(attempt.totalTime, example.totalTime)))))

\* compareStrokeTimingPatterns once the relative durations are known
compareDurationPatterns(exampleDurations, attemptDurations) ==
    LET minLength == IntMin(Len(exampleDurations), Len(attemptDurations))
    IN  IF minLength < 2 THEN Dec(5, 10)
        ELSE FMax(0, FSub(Num(1),
                 FDiv(totalDifferenceFrom(exampleDurations, attemptDurations, 1, minLength),
                      Num(minLength))))

\* compareStrokeTimingPatterns with a zero fallback in place of the neutral
\* 0.5 when a drawing has fewer than two strokes (C4 is tested against it)
compareStrokeTimingPatternsZero(example, attempt) ==
    IF Len(example.strokes) < 2 \/ Len(attempt.strokes) < 2 THEN 0
    ELSE compareDurationPatterns(calculateRelativeStrokeDurations(example),
                                 calculateRelativeStrokeDurations(attempt))

\* compareStrokeTimingPatterns
compareStrokeTimingPatterns(example, attempt) ==
    IF Len(example.strokes) < 2 \/ Len(attempt.strokes) < 2 THEN Dec(5, 10)
    ELSE compareDurationPatterns(calculateRelativeStrokeDurations(example),
                                 calculateRelativeStrokeDurations(attempt))

\* calculateTimingScore
calculateTimingScore(example, attempt) ==
    FAdd(FMul(compareTimingRatio(example, attempt), Dec(4, 10)),
         FMul(compareStrokeTimingPatterns(example, attempt), Dec(6, 10)))

\* the constraint-adherence term of calculateAccuracyScore; constraintBox
\* is << >> (undefined) or << box >>
constraintAdherenceScore(attempt, constraintBox) ==
    IF Len(constraintBox) > 0
    THEN calculateConstraintAdherence(attempt, constraintBox[1])
    ELSE Num(1)

\* calculateAccuracyScore
calculateAccuracyScore(example, attempt, constraintBox) ==
    FAdd(FMul(calculatePathSimilarity(normalizeDrawing(example), normalizeDrawing(attempt)),
              Dec(75, 100)),
         FMul(constraintAdherenceScore(attempt, constraintBox), Dec(25, 100)))

\* normalizedScoreToStars
normalizedScoreToStars(score) ==
    FRound(FAdd(FMul(FMax(0, FMin(Num(1), score)), Num(4)), Num(1)))

\* the feedback band generateFeedback selects
feedbackCategory(score) ==
    IF FGe(score, Num(90)) THEN "excellent"
    ELSE IF FGe(score, Num(75)) THEN "veryGood"
    ELSE IF FGe(score, Num(60)) THEN "good"
    ELSE IF FGe(score, Num(40)) THEN "fair"
    ELSE "needsWork"

\* the index drawn with Math.round in place of Math.floor (C8 is tested
\* against it)
randomIndexRounded(score, random) ==
    FRound(FMul(random, Num(Len(FEEDBACK[feedbackCategory(score)])))) \div Scale

\* the index generateFeedback draws into the band's pool (0-based)
randomIndex(score, random) ==
    FFloor(FMul(random, Num(Len(FEEDBACK[feedbackCategory(score)])))) \div Scale

\* generateFeedback; random is the value Math.random() returns, in [0, 1).
\* An index outside the array reads undefined.
generateFeedback(score, random) ==
    LET feedbackOptions == FEEDBACK[feedbackCategory(score)]
        index == randomIndex(score, random)
    IN  IF index + 1 \in DOMAIN feedbackOptions
        THEN feedbackOptions[index + 1]
        ELSE "undefined"

\* the element the code reads as attempts[attempts.length - 1] and
\* constraintBoxes?.[attempts.length - 1]: << >> when undefined
elementAt(array, index) ==
    IF index + 1 \in DOMAIN array THEN << array[index + 1] >> ELSE << >>

\* step 4 of calculateScore: the overall score
overallScoreOf(accuracyScore, strokesScore, timingScore) ==
    FRound(FMul(FAdd(FAdd(FMul(accuracyScore, WEIGHTS.accuracy),
                          FMul(strokesScore, WEIGHTS.strokes)),
                     FMul(timingScore, WEIGHTS.timing)),
                Num(MAX_SCORE)))

\* steps 5 and 6 of calculateScore: the ScoreResult (without its timestamp)
scoreResultOf(accuracyScore, strokesScore, timingScore, overallScore, random) ==
    [totalScore |-> overallScore,
     categories |->
        [accuracy |-> normalizedScoreToStars(accuracyScore),
         strokes |-> normalizedScoreToStars(strokesScore),
         timing |-> normalizedScoreToStars(timingScore),
         overall |-> normalizedScoreToStars(FDiv(overallScore, Num(MAX_SCORE)))],
     feedback |-> generateFeedback(overallScore, random)]

\* the end of calculateScore: the result is emitted and returned
returnScore(accuracyScore, strokesScore, timingScore, scoreResult) ==
    [thrown |-> << >>,
     returned |-> << scoreResult >>,
     emitted |-> << [event |-> "score-calculated", payload |-> scoreResult] >>,
     logged |-> << [accuracyScore |-> accuracyScore,
                    strokesScore |-> strokesScore,
                    timingScore |-> timingScore] >>]

\* steps 4 to 6 of calculateScore, from the three sub-scores
composeScore(accuracyScore, strokesScore, timingScore, random) ==
    returnScore(accuracyScore, strokesScore, timingScore,
                scoreResultOf(accuracyScore, strokesScore, timingScore,
                              overallScoreOf(accuracyScore, strokesScore, timingScore),
                              random))

\* steps 1 to 6 of calculateScore, for the final attempt
scoreAttempt(example, finalAttempt, constraintBox, random) ==
    composeScore(calculateAccuracyScore(example, finalAttempt, constraintBox),
                 calculateStrokesScore(example, finalAttempt),
                 calculateTimingScore(example, finalAttempt),
                 random)

\* calculateScore without the check of the final attempt: a missing attempt
\* is scored as a copy of the example (C1 is tested against it)
calculateScoreUnguarded(example, attempts, constraintBoxes, random) ==
    IF Len(attempts) = 0
    THEN scoreAttempt(example, example, << >>, random)
    ELSE scoreAttempt(example, attempts[Len(attempts)],
                      elementAt(constraintBoxes, Len(attempts) - 1), random)

\* calculateScore scoring the first attempt in place of the last (C5 is
\* tested against it)
calculateScoreFirst(example, attempts, constraintBoxes, random) ==
    IF Len(elementAt(attempts, 0)) = 0
    THEN [thrown |-> << "No attempts provided for scoring" >>,
          returned |-> << >>, emitted |-> << >>, logged |-> << >>]
    ELSE scoreAttempt(example, attempts[1], elementAt(constraintBoxes, 0), random)

\* calculateScore carrying state from one call to the next: once a call has
\* been made the accuracy score is halved (C10 is tested against it)
calculateScoreCarrying(example, attempts, constraintBoxes, random) ==
    IF Len(elementAt(attempts, Len(attempts) - 1)) = 0
    THEN [thrown |-> << "No attempts provided for scoring" >>,
          returned |-> << >>, emitted |-> << >>, logged |-> << >>]
    ELSE composeScore(
             FMul(calculateAccuracyScore(example, attempts[Len(attempts)],
                      elementAt(constraintBoxes, Len(attempts) - 1)),
                  IF firstCall = << >> THEN Num(1) ELSE Dec(5, 10)),
             calculateStrokesScore(example, attempts[Len(attempts)]),
             calculateTimingScore(example, attempts[Len(attempts)]),
             random)

\* calculateScore.  The call either throws (thrown holds the message) or
\* returns (returned holds the ScoreResult) after emitting
\* 'score-calculated'; logged are the sub-scores it writes to the console.
\* constraintBoxes is << >> when the argument is omitted.
calculateScore(example, attempts, constraintBoxes, random) ==
    IF Len(elementAt(attempts, Len(attempts) - 1)) = 0
    THEN [thrown |-> << "No attempts provided for scoring" >>,
          returned |-> << >>, emitted |-> << >>, logged |-> << >>]
    ELSE scoreAttempt(example, attempts[Len(attempts)],
                      elementAt(constraintBoxes, Len(attempts) - 1), random)

\* the argument objects after the call: normalizeDrawing and the comparators
\* build new arrays and objects and assign to none of the arguments' fields
argumentsAfter(example, attempts, constraintBoxes) ==
    << example, attempts, constraintBoxes >>

(***************************************************************************)
(* EventEmitter (src/src/utils/EventEmitter.ts), which ScoreManager        *)
(* extends.  The map `events` holds, for each event with listeners, the    *)
(* array of its callbacks.                                                 *)
(***************************************************************************)
\* EventEmitter.on
on(map, event, callback) ==
    IF event \in DOMAIN map
    THEN [map EXCEPT ![event] = Append(@, callback)]
    ELSE [e \in DOMAIN map \cup {event} |->
            IF e = event THEN << callback >> ELSE map[e]]

\* Array.indexOf: the first index of callback (1-based), 0 when absent
RECURSIVE indexOfFrom(_, _, _)
indexOfFrom(callbacks, callback, i) ==
    IF i > Len(callbacks) THEN 0
    ELSE IF callbacks[i] = callback THEN i
    ELSE indexOfFrom(callbacks, callback, i + 1)

\* Array.splice(index, 1)
splice(callbacks, index) ==
    [i \in 1..(Len(callbacks) - 1) |->
        IF i < index THEN callbacks[i] ELSE callbacks[i + 1]]

\* EventEmitter.off once the index of the callback is known
removeAt(map, event, index) ==
    IF index = 0 THEN map
    ELSE IF Len(map[event]) = 1
         THEN [e \in DOMAIN map \ {event} |-> map[e]]
         ELSE [map EXCEPT ![event] = splice(@, index)]

\* EventEmitter.off
off(map, event, callback) ==
    IF event \notin DOMAIN map THEN map
    ELSE removeAt(map, event, indexOfFrom(map[event], callback, 1))

\* EventEmitter.emit: the callbacks invoked, in order (the copy of the array)
emit(map, event) == IF event \in DOMAIN map THEN map[event] ELSE << >>

\* EventEmitter.removeAllListeners, and the map of a new emitter
NoListeners == [e \in {} |-> << >>]
removeAllListeners(map) == NoListeners

\* The callbacks of the listeners: "plain" returns, "throwing" throws an
\* Error, "removing" calls off(event, "plain") on the emitter that invoked
\* it and returns, and "adding" calls on(event, "plain") on it and returns.
throws(callback) == callback = "throwing"
listenerEffect(map, event, callback) ==
    IF callback = "removing" THEN off(map, event, "plain")
    ELSE IF callback = "adding" THEN on(map, event, "plain")
    ELSE map

\* an emission that has invoked nothing yet: the map, the invocations made,
\* the errors written to console.error, and the error that left emit
emission(map) == [events |-> map, invoked |-> << >>, logged |-> << >>, thrown |-> << >>]

\* callbacksCopy.forEach without the try and catch around the callback: the
\* error leaves emit (C20 is tested against it)
RECURSIVE forEachFromUnprotected(_, _, _, _, _)
forEachFromUnprotected(result, callbacksCopy, event, args, i) ==
    IF i > Len(callbacksCopy) THEN result
    ELSE IF throws(callbacksCopy[i])
    THEN [result EXCEPT
            !.invoked = Append(@, [callback |-> callbacksCopy[i], args |-> args]),
            !.thrown = << callbacksCopy[i] >>]
    ELSE forEachFromUnprotected(
            [result EXCEPT
                !.events = listenerEffect(@, event, callbacksCopy[i]),
                !.invoked = Append(@, [callback |-> callbacksCopy[i], args |-> args])],
            callbacksCopy, event, args, i + 1)

\* callbacksCopy.forEach in emit, from the i-th callback on: the callback
\* is invoked with the arguments, and what it throws is caught and logged
RECURSIVE forEachFrom(_, _, _, _, _)
forEachFrom(result, callbacksCopy, event, args, i) ==
    IF i > Len(callbacksCopy) THEN result
    ELSE forEachFrom(
            [result EXCEPT
                !.events = listenerEffect(@, event, callbacksCopy[i]),
                !.invoked = Append(@, [callback |-> callbacksCopy[i], args |-> args]),
                !.logged = IF throws(callbacksCopy[i]) THEN Append(@, callbacksCopy[i])
                           ELSE @],
            callbacksCopy, event, args, i + 1)

\* callbacks.forEach on the array of the event itself, without the copy
RECURSIVE forEachLive(_, _, _, _)
forEachLive(result, event, args, i) ==
    IF i > Len(emit(result.events, event)) THEN result
    ELSE forEachLive(
            [result EXCEPT
                !.events = listenerEffect(@, event, emit(result.events, event)[i]),
                !.invoked = Append(@, [callback |-> emit(result.events, event)[i],
                                       args |-> args]),
                !.logged = IF throws(emit(result.events, event)[i])
                           THEN Append(@, emit(result.events, event)[i])
                           ELSE @],
            event, args, i + 1)

\* EventEmitter.emit without the copy of the array (C23 is tested against it)
emitEventLive(map, event, args) == forEachLive(emission(map), event, args, 1)

\* EventEmitter.emit with its arguments and the work of the callbacks
emitEvent(map, event, args) == forEachFrom(emission(map), emit(map, event), event, args, 1)

\* no call made to the emitter yet; removed holds the << event, callback >>
\* of the off calls that have returned, none of them followed by an on of
\* the same event and callback, and removedBefore its value when the last
\* call started
NoEmitterLog ==
    [operation |-> "none", event |-> "", callback |-> "", args |-> << >>,
     before |-> NoListeners, removed |-> {}, removedBefore |-> {},
     invoked |-> << >>, logged |-> << >>, thrown |-> << >>]

\* removed after the callbacks of an emission have made their off and on
\* calls
RECURSIVE removedAfter(_, _, _, _)
removedAfter(removed, callbacksCopy, event, i) ==
    IF i > Len(callbacksCopy) THEN removed
    ELSE removedAfter(
            IF callbacksCopy[i] = "removing" THEN removed \cup { << event, "plain" >> }
            ELSE IF callbacksCopy[i] = "adding" THEN removed \ { << event, "plain" >> }
            ELSE removed,
            callbacksCopy, event, i + 1)

\* the callbacks a calculateScore call with this outcome invokes
callbacksInvoked(map, result) ==
    IF Len(result.emitted) > 0 THEN emit(map, result.emitted[1].event) ELSE << >>

(***************************************************************************)
(* AnimationController (src/src/utils/AnimationController.ts).  The record *)
(* holds the fields of the controller (tasks: the handles of the Map in    *)
(* insertion order, task_n as n; running; rafId, 0 for null; idCounter),   *)
(* the frame callbacks the window holds for it (requested, in request      *)
(* order; frameCounter, the next id requestAnimationFrame returns) and the *)
(* position of loop (iterating; copy, the entries of the copied task list  *)
(* not yet visited).  lastTimestamp and dt only reach the callbacks and    *)
(* are left out.                                                           *)
(***************************************************************************)
MaxTasks == 3
MaxFrames == 4

\* the controller after construction
AnimationController ==
    [tasks |-> << >>, running |-> FALSE, rafId |-> 0, idCounter |-> 0,
     requested |-> << >>, frameCounter |-> 1,
     iterating |-> FALSE, copy |-> << >>]

\* a sequence without the given element
without(seq, element) == SelectSeq(seq, LAMBDA e : e # element)

\* this.rafId = requestAnimationFrame(this.loop)
requestAnimationFrame(a) ==
    [a EXCEPT !.requested = Append(@, a.frameCounter),
              !.rafId = a.frameCounter,
              !.frameCounter = @ + 1]

\* AnimationController.start
start(a) ==
    IF ~a.running
    THEN requestAnimationFrame([a EXCEPT !.running = TRUE])
    ELSE a

\* AnimationController.stop; cancelAnimationFrame of a frame that has
\* fired or was cancelled does nothing
stop(a) ==
    [a EXCEPT !.running = FALSE,
              !.requested = IF a.rafId # 0 THEN without(@, a.rafId) ELSE @,
              !.rafId = 0]

\* AnimationController.schedule; the handle returned is a.idCounter
schedule(a) ==
    start([a EXCEPT !.tasks = Append(@, a.idCounter), !.idCounter = @ + 1])

\* the end of cancel and of loop: stop when no tasks remain
stopIfEmpty(a) == IF Len(a.tasks) = 0 THEN stop(a) ELSE a

\* AnimationController.cancel
cancel(a, handle) == stopIfEmpty([a EXCEPT !.tasks = without(@, handle)])

\* loop, entered by the frame callback at the head of the requested
\* frames: it returns at once when not running, else it copies the tasks
loopEnter(a) ==
    IF ~a.running
    THEN [a EXCEPT !.requested = Tail(@)]
    ELSE [a EXCEPT !.requested = Tail(@), !.iterating = TRUE, !.copy = a.tasks]

\* loop, after task.callback(dt) has returned done for the next entry of
\* the copy
loopAfterCallback(a, done) ==
    [a EXCEPT !.tasks = IF done THEN without(@, Head(a.copy)) ELSE @,
              !.copy = Tail(@)]

\* loop, after the last entry: request the next frame or stop
loopExit(a) ==
    IF Len(a.tasks) > 0
    THEN requestAnimationFrame([a EXCEPT !.iterating = FALSE])
    ELSE stop([a EXCEPT !.iterating = FALSE])

\* what a callback does before it returns: it may cancel a handle (0 and
\* up; -1 for none) and may then schedule a task
callbackEffect(a, cancelled, schedules) ==
    IF schedules
    THEN schedule(IF cancelled >= 0 THEN cancel(a, cancelled) ELSE a)
    ELSE IF cancelled >= 0 THEN cancel(a, cancelled) ELSE a

\* the log after construction, after an operation by a client, and after
\* the loop has invoked a callback
NoTaskLog == [cancelled |-> {}, done |-> {}, invoking |-> << >>, last |-> "new"]

logged(log, operation, cancelledHandles) ==
    [log EXCEPT !.cancelled = @ \cup cancelledHandles,
                !.invoking = << >>,
                !.last = operation]

loggedInvocation(log, handle, cancelledHandles, done) ==
    [cancelled |-> log.cancelled \cup cancelledHandles,
     done |-> IF done THEN log.done \cup {handle} ELSE log.done,
     invoking |-> << [handle |-> handle,
                      wasCancelled |-> handle \in log.cancelled,
                      wasDone |-> handle \in log.done] >>,
     last |-> "callback"]

(***************************************************************************)
(* DrawingManager (src/src/tests/services/UIManager.test.ts, lines 90 to   *)
(* 410).  The record holds the fields of the manager; a stroke is an       *)
(* object: currentStroke and the elements of strokes are references        *)
(* (indices into objects, 0 for null), so that a stroke shared between the *)
(* manager and a Drawing it has returned is one object.  canvas is << >>   *)
(* for null, else << [width, height] >>, with its 2d context.  Pressure,   *)
(* color and the stroke's width are only copied and are left out, as are   *)
(* the calls that paint and the events emitted at the end of a handler.    *)
(***************************************************************************)
MaxStrokes == 3
MaxPoints == 2
MaxClock == 3

\* the manager after construction
DrawingManager ==
    [canvas |-> << >>, isDrawing |-> FALSE, isEnabled |-> FALSE,
     currentStroke |-> 0, strokes |-> << >>, strokeCounter |-> 0,
     startTime |-> 0, endTime |-> 0, objects |-> << >>]

\* DrawingManager.reset
reset(m) ==
    [m EXCEPT !.strokes = << >>, !.strokeCounter = 0, !.startTime = 0,
              !.endTime = 0, !.isDrawing = FALSE, !.currentStroke = 0]

\* DrawingManager.initialize, with a canvas that has a 2d context
initialize(m, canvasElement) == reset([m EXCEPT !.canvas = << canvasElement >>])

\* DrawingManager.setCanvas
setCanvas(m, canvasElement) == [m EXCEPT !.canvas = << canvasElement >>]

\* DrawingManager.enable
enable(m) == [m EXCEPT !.isEnabled = TRUE]

\* DrawingManager.disable leaving the current stroke set (C13 is tested
\* against it)
disableKeepingStroke(m) == [m EXCEPT !.isEnabled = FALSE, !.isDrawing = FALSE]

\* DrawingManager.disable
disable(m) == [m EXCEPT !.isEnabled = FALSE, !.isDrawing = FALSE, !.currentStroke = 0]

\* DrawingManager.startStroke with the stroke also pushed to the strokes
\* list when it starts (C16 is tested against it)
startStrokeListed(m, x, y, now) ==
    IF Len(m.canvas) = 0 THEN m
    ELSE [m EXCEPT
            !.startTime = IF Len(m.strokes) = 0 THEN now ELSE @,
            !.isDrawing = TRUE,
            !.currentStroke = Len(m.objects) + 1,
            !.strokes = Append(@, Len(m.objects) + 1),
            !.strokeCounter = @ + 1,
            !.objects = Append(@, [id |-> m.strokeCounter,
                                   points |-> << [x |-> x, y |-> y, timestamp |-> now] >>,
                                   startTime |-> now,
                                   endTime |-> now])]

\* DrawingManager.startStroke without the increment of strokeCounter (C15
\* is tested against it)
startStrokeSameId(m, x, y, now) ==
    IF Len(m.canvas) = 0 THEN m
    ELSE [m EXCEPT
            !.startTime = IF Len(m.strokes) = 0 THEN now ELSE @,
            !.isDrawing = TRUE,
            !.currentStroke = Len(m.objects) + 1,
            !.objects = Append(@, [id |-> m.strokeCounter,
                                   points |-> << [x |-> x, y |-> y, timestamp |-> now] >>,
                                   startTime |-> now,
                                   endTime |-> now])]

\* DrawingManager.startStroke: a new stroke object becomes the current stroke
startStroke(m, x, y, now) ==
    IF Len(m.canvas) = 0 THEN m
    ELSE [m EXCEPT
            !.startTime = IF Len(m.strokes) = 0 THEN now ELSE @,
            !.isDrawing = TRUE,
            !.currentStroke = Len(m.objects) + 1,
            !.strokeCounter = @ + 1,
            !.objects = Append(@, [id |-> m.strokeCounter,
                                   points |-> << [x |-> x, y |-> y, timestamp |-> now] >>,
                                   startTime |-> now,
                                   endTime |-> now])]

\* DrawingManager.continueStroke: a point is pushed to the current stroke
continueStroke(m, x, y, now) ==
    IF Len(m.canvas) = 0 \/ m.currentStroke = 0 THEN m
    ELSE [m EXCEPT !.objects[m.currentStroke].points =
                        Append(@, [x |-> x, y |-> y, timestamp |-> now])]

\* DrawingManager.endStroke: the current stroke is completed
endStroke(m, now) ==
    IF m.currentStroke = 0 THEN m
    ELSE [m EXCEPT !.objects[m.currentStroke].endTime = now,
                   !.endTime = now,
                   !.strokes = Append(@, m.currentStroke),
                   !.isDrawing = FALSE,
                   !.currentStroke = 0]

\* handleMouseDown and handleTouchStart
handleStart(m, x, y, now) == IF ~m.isEnabled THEN m ELSE startStroke(m, x, y, now)

\* handleMouseMove and handleTouchMove
handleMove(m, x, y, now) ==
    IF ~m.isEnabled \/ ~m.isDrawing THEN m ELSE continueStroke(m, x, y, now)

\* handleMouseUp and handleTouchEnd
handleEnd(m, now) == IF ~m.isEnabled THEN m ELSE endStroke(m, now)

\* DrawingManager.getDrawingData: a new array of the same stroke objects
getDrawingData(m) ==
    [strokes |-> m.strokes,
     totalTime |-> m.endTime - m.startTime,
     width |-> IF Len(m.canvas) > 0 THEN m.canvas[1].width ELSE 0,
     height |-> IF Len(m.canvas) > 0 THEN m.canvas[1].height ELSE 0]

\* the value of a Drawing: its strokes are the objects its references name
drawingValue(objects, drawing) ==
    [drawing EXCEPT !.strokes = [i \in DOMAIN drawing.strokes |-> objects[drawing.strokes[i]]]]

(***************************************************************************)
(* StorageManager (src/src/services/StorageManager.ts).  The record holds  *)
(* the fields of the manager, the two localStorage items it writes, and    *)
(* the promise its last call returned with the events the call emitted.    *)
(* An exercise is [id, adultDrawing, attempts, highestScore], highestScore *)
(* being << >> for null, else << [totalScore] >>.  An index is 1-based, 0  *)
(* standing for the -1 of findIndex.  localStorage.setItem throws for the  *)
(* keys in failing (the quota is exceeded).  name and createdAt are only   *)
(* copied, and the settings have their own item; they are left out.        *)
(***************************************************************************)
MaxExercises == 2

\* the keys of localStorage
STORAGE_KEYS == { "handwriting_exercises", "handwriting_thumbnails" }

\* the JSON null, and the number a comparison converts it to
Null == MAX_VALUE + 3
toNumber(value) == IF value = Null THEN 0 ELSE value

\* a thumbnails object without properties
NoThumbnails == [id \in {} |-> << >>]

StorageManager ==
    [exercises |-> << >>, thumbnails |-> NoThumbnails, initialized |-> FALSE,
     localStorage |-> [handwriting_exercises |-> << >>, handwriting_thumbnails |-> << >>],
     promise |-> [status |-> "none", reason |-> << >>, emitted |-> << >>]]

\* the promise of a call that has started, that rejected with an error, and
\* that resolved after emitting events
pending(m) ==
    [m EXCEPT !.promise = [status |-> "pending", reason |-> << >>, emitted |-> << >>]]
rejected(m, error) ==
    [m EXCEPT !.promise = [status |-> "rejected", reason |-> error, emitted |-> << >>]]
fulfilled(m, emitted) ==
    [m EXCEPT !.promise = [status |-> "fulfilled", reason |-> << >>, emitted |-> emitted]]
isRejected(m) == m.promise.status = "rejected"

\* new Error(`Exercise with ID ${id} not found`), and the error setItem throws
notFound(id) == << "Exercise with ID ", id, " not found" >>
QuotaExceededError == << "QuotaExceededError" >>

\* JSON.stringify of the exercises: a NaN is written as null
stringify(exercises) ==
    [i \in DOMAIN exercises |->
        [exercises[i] EXCEPT !.highestScore =
            IF @ # << >> /\ IsNaN(@[1].totalScore) THEN << [totalScore |-> Null] >> ELSE @]]

\* exercises.findIndex(e => e.id === id)
findIndexFrom(exercises, id, i) ==
    IF \E j \in i..Len(exercises) : exercises[j].id = id
    THEN CHOOSE j \in i..Len(exercises) :
            /\ exercises[j].id = id
            /\ \A k \in i..(j - 1) : exercises[k].id # id
    ELSE 0
findIndex(exercises, id) == findIndexFrom(exercises, id, 1)

\* StorageManager.getExerciseById: << >> for undefined
getExerciseById(m, id) ==
    IF findIndex(m.exercises, id) = 0 THEN << >>
    ELSE << m.exercises[findIndex(m.exercises, id)] >>

\* StorageManager.persistExercises
persistExercises(m, failing) ==
    IF "handwriting_exercises" \in failing THEN rejected(m, QuotaExceededError)
    ELSE [m EXCEPT !.localStorage.handwriting_exercises = << stringify(m.exercises) >>]

\* StorageManager.persistThumbnails
persistThumbnails(m, failing) ==
    IF "handwriting_thumbnails" \in failing THEN rejected(m, QuotaExceededError)
    ELSE [m EXCEPT !.localStorage.handwriting_thumbnails = << m.thumbnails >>]

\* StorageManager.generateThumbnail: the data URL of the picture of a drawing
generateThumbnail(drawingData) == << "data:image/png", drawingData >>

\* StorageManager.generateAndSaveThumbnail
generateAndSaveThumbnail(m, exercise, failing) ==
    persistThumbnails(
        [m EXCEPT !.thumbnails =
            [id \in DOMAIN m.thumbnails \cup { exercise.id } |->
                IF id = exercise.id THEN generateThumbnail(exercise.adultDrawing)
                ELSE m.thumbnails[id]]],
        failing)

\* StorageManager.initialize: loadExercises and loadThumbnails, once
storageInitialize(m) ==
    IF m.initialized THEN fulfilled(m, << >>)
    ELSE fulfilled(
            [m EXCEPT
                !.exercises = IF m.localStorage.handwriting_exercises = << >> THEN << >>
                              ELSE m.localStorage.handwriting_exercises[1],
                !.thumbnails = IF m.localStorage.handwriting_thumbnails = << >>
                               THEN NoThumbnails
                               ELSE m.localStorage.handwriting_thumbnails[1],
                !.initialized = TRUE],
            IF m.localStorage.handwriting_exercises = << >>
            THEN << "storage-initialized" >>
            ELSE << "exercises-loaded", "storage-initialized" >>)

\* StorageManager.saveExercise
saveExercise(m, exercise, failing) ==
    LET persisted == persistExercises(
                        [pending(m) EXCEPT !.exercises = Append(@, exercise)], failing)
        saved == generateAndSaveThumbnail(persisted, exercise, failing)
    IN  IF isRejected(persisted) THEN persisted
        ELSE IF isRejected(saved) THEN saved
        ELSE fulfilled(saved, << "exercise-saved" >>)

\* StorageManager.updateExercise
updateExercise(m, updatedExercise, failing) ==
    LET index == findIndex(m.exercises, updatedExercise.id)
        persisted == persistExercises(
                        [pending(m) EXCEPT !.exercises[index] = updatedExercise], failing)
        saved == generateAndSaveThumbnail(persisted, updatedExercise, failing)
    IN  IF index = 0 THEN rejected(m, notFound(updatedExercise.id))
        ELSE IF isRejected(persisted) THEN persisted
        ELSE IF isRejected(saved) THEN saved
        ELSE fulfilled(saved, << "exercise-updated" >>)

\* StorageManager.deleteExercise without the test of the index: splice(-1, 1)
\* removes the last exercise (C18 is tested against it)
deleteExerciseUnguarded(m, id, failing) ==
    LET found == findIndex(m.exercises, id)
        index == IF found = 0 THEN Len(m.exercises) ELSE found
        persisted == persistExercises(
                        [pending(m) EXCEPT !.exercises =
                            SubSeq(@, 1, index - 1) \o SubSeq(@, index + 1, Len(@))],
                        failing)
        deleted == persistThumbnails(
                        [persisted EXCEPT !.thumbnails =
                            [t \in DOMAIN persisted.thumbnails \ { id } |->
                                persisted.thumbnails[t]]],
                        failing)
    IN  IF isRejected(persisted) THEN persisted
        ELSE IF isRejected(deleted) THEN deleted
        ELSE fulfilled(deleted, << "exercise-deleted" >>)

\* StorageManager.deleteExercise
deleteExercise(m, id, failing) ==
    LET index == findIndex(m.exercises, id)
        persisted == persistExercises(
                        [pending(m) EXCEPT !.exercises =
                            SubSeq(@, 1, index - 1) \o SubSeq(@, index + 1, Len(@))],
                        failing)
        deleted == persistThumbnails(
                        [persisted EXCEPT !.thumbnails =
                            [t \in DOMAIN persisted.thumbnails \ { id } |->
                                persisted.thumbnails[t]]],
                        failing)
    IN  IF index = 0 THEN rejected(m, notFound(id))
        ELSE IF isRejected(persisted) THEN persisted
        ELSE IF isRejected(deleted) THEN deleted
        ELSE fulfilled(deleted, << "exercise-deleted" >>)

\* isHighScore in saveExerciseResult
isHighScore(existingExercise, score) ==
    \/ existingExercise.highestScore = << >>
    \/ FGt(toNumber(score.totalScore), toNumber(existingExercise.highestScore[1].totalScore))

\* StorageManager.saveExerciseResult
saveExerciseResult(m, exercise, score, failing) ==
    LET existingExercise == getExerciseById(m, exercise.id)
        updated == updateExercise(
                      m,
                      [existingExercise[1] EXCEPT
                          !.attempts = exercise.attempts,
                          !.highestScore = IF isHighScore(existingExercise[1], score)
                                           THEN << score >> ELSE @],
                      failing)
    IN  IF existingExercise = << >> THEN rejected(m, notFound(exercise.id))
        ELSE IF isRejected(updated) THEN updated
        ELSE fulfilled(updated, << "exercise-updated", "exercise-result-saved" >>)

(***************************************************************************)
(* The async functions of the StorageManager, step by step: a call runs to *)
(* its first await at once, and each of its continuations runs when the    *)
(* promise it awaits has resolved, with the continuations of other calls   *)
(* in between.  A call is a record of its operation, its argument (for     *)
(* deleteExercise the id only) and the promise it is awaiting.  No setItem *)
(* throws here.                                                            *)
(***************************************************************************)
StorageCall(operation, exercise, awaiting) ==
    [operation |-> operation, exercise |-> exercise, awaiting |-> awaiting]

\* saveExercise up to await this.persistExercises()
saveExerciseCalled(m, exercise) ==
    persistExercises([m EXCEPT !.exercises = Append(@, exercise)], {})

\* updateExercise up to await this.persistExercises(), the exercise being found
updateExerciseCalled(m, updatedExercise) ==
    persistExercises(
        [m EXCEPT !.exercises[findIndex(m.exercises, updatedExercise.id)] = updatedExercise],
        {})

\* deleteExercise up to await this.persistExercises(), the exercise being found
deleteExerciseCalled(m, id) ==
    persistExercises(
        [m EXCEPT !.exercises = SubSeq(@, 1, findIndex(m.exercises, id) - 1)
                                \o SubSeq(@, findIndex(m.exercises, id) + 1, Len(@))],
        {})

\* deleteExercise from delete this.thumbnails[id] to await this.persistThumbnails()
thumbnailDeleted(m, id) ==
    persistThumbnails(
        [m EXCEPT !.thumbnails = [t \in DOMAIN m.thumbnails \ { id } |-> m.thumbnails[t]]],
        {})

\* the manager after the continuation of a call
continued(m, call) ==
    IF call.awaiting = "persistExercises" /\ call.operation = "deleteExercise"
    THEN thumbnailDeleted(m, call.exercise.id)
    ELSE IF call.awaiting = "generateThumbnail"
    THEN generateAndSaveThumbnail(m, call.exercise, {})
    ELSE m

\* the promise a call awaits after its continuation
awaitedNext(call) ==
    IF call.awaiting = "persistExercises"
    THEN IF call.operation = "deleteExercise" THEN "persistThumbnails"
         ELSE "generateThumbnail"
    ELSE IF call.awaiting = "generateThumbnail" THEN "persistThumbnails"
    ELSE "fulfilled"

\* the ids of the exercises, the drawings of the adult (each stands for a
\* DrawingData), the lists of attempts (each stands for its length) and
\* the total scores calculateScore returns, NaN being one of them
Ids == { "1", "2" }
AdultDrawings == { "blank", "line" }
AttemptLists == { 1 }
TotalScores == { Num(40), Num(85), NaN }

\* no call made yet; saved[id] are the total scores that fulfilled calls of
\* saveExerciseResult saved for id, and pure[id] tells that the exercise
\* was created with saveExercise and touched by nothing but those calls
NoStorageLog ==
    [operation |-> "none", id |-> "", known |-> FALSE,
     saved |-> [id \in Ids |-> {}], pure |-> [id \in Ids |-> FALSE]]

(***************************************************************************)
(* ExampleDrawingAnimator (src/unnamed/part_009).  The record holds the    *)
(* two options, the drawing being played, s and i of play and              *)
(* animateStroke, elapsed of the scheduled step, task: the step the        *)
(* animator has scheduled on its controller ("stroke", "pause" or "none"), *)
(* settled: the state of the promise of play, and emitted: the events      *)
(* emitted on the emitter, each with the index of its stroke and, for      *)
(* 'point-added', its point.  The controller calls the scheduled step with *)
(* the time dt since the previous frame until the step returns true; the   *)
(* continuation of the resolved promise runs before the next frame.        *)
(***************************************************************************)
ExampleDrawingAnimator(pointIntervalMs, strokePauseMs) ==
    [pointIntervalMs |-> pointIntervalMs, strokePauseMs |-> strokePauseMs,
     strokes |-> << >>, s |-> 0, i |-> 0, elapsed |-> 0,
     task |-> "none", settled |-> "none", emitted |-> << >>]

emitStroke(a, event) ==
    [a EXCEPT !.emitted = Append(@, [event |-> event, stroke |-> a.s])]

emitPoint(a, pt) ==
    [a EXCEPT !.emitted = Append(@, [event |-> "point-added", stroke |-> a.s, point |-> pt])]

\* ExampleDrawingAnimator.pause: the step is scheduled
pause(a) == [a EXCEPT !.task = "pause", !.elapsed = 0]

\* play once animateStroke has resolved: the pause, or the end of the loop
afterStroke(a) ==
    IF a.s < Len(a.strokes)
    THEN pause(a)
    ELSE [a EXCEPT !.task = "none", !.settled = "resolved"]

\* ExampleDrawingAnimator.animateStroke for the stroke a.s
animateStroke(a) ==
    IF Len(a.strokes[a.s].points) < 2
    THEN afterStroke(emitStroke(emitStroke(a, "stroke-started"), "stroke-completed"))
    ELSE [emitStroke(a, "stroke-started") EXCEPT !.task = "stroke", !.i = 0, !.elapsed = 0]

\* the while loop of the step of animateStroke
RECURSIVE addPoints(_)
addPoints(a) ==
    IF a.elapsed >= a.pointIntervalMs /\ a.i < Len(a.strokes[a.s].points) - 1
    THEN addPoints([emitPoint(a, a.strokes[a.s].points[a.i + 2])
                       EXCEPT !.i = @ + 1, !.elapsed = @ - a.pointIntervalMs])
    ELSE a

\* the step of animateStroke once the points are added
completeStroke(a) ==
    IF a.i >= Len(a.strokes[a.s].points) - 1
    THEN afterStroke(emitStroke(a, "stroke-completed"))
    ELSE a

\* the step of animateStroke
strokeStep(a, dt) == completeStroke(addPoints([a EXCEPT !.elapsed = @ + dt]))

\* a step of pause that resolves on its first frame whatever time has
\* elapsed (used to show that the pause between strokes is observed)
pauseElapsedAtOnce(a) == animateStroke([a EXCEPT !.s = @ + 1])

\* the step of pause once elapsed is advanced: play goes on with the next stroke
pauseElapsed(a) ==
    IF a.elapsed >= a.strokePauseMs
    THEN animateStroke([a EXCEPT !.s = @ + 1])
    ELSE a

\* the step of pause
pauseStep(a, dt) == pauseElapsed([a EXCEPT !.elapsed = @ + dt])

\* ExampleDrawingAnimator.play
play(a, drawing) ==
    IF Len(drawing.strokes) = 0
    THEN [a EXCEPT !.strokes = drawing.strokes, !.settled = "rejected"]
    ELSE animateStroke([a EXCEPT !.strokes = drawing.strokes, !.s = 1,
                                 !.settled = "pending"])

\* nothing played yet; waited is the time since the last 'stroke-completed',
\* pauses the time waited before every 'stroke-started' but the first
\* (the first comes with the call of play)
NoAnimatorLog == [waited |-> 0, pauses |-> << >>]

(***************************************************************************)
(* GameManager (src/unnamed/part_008) with the UIManager it drives         *)
(* (src/unnamed/part_004, the class from line 1371 on) and its             *)
(* DrawingManager.  The record holds the state of the GameManager          *)
(* (currentExercise: whether there is one; currentAttempt; attempts, the   *)
(* length of the attempts array of the exercise), of the UIManager (view;  *)
(* the two animation flags; events, its listeners for                      *)
(* 'example-animation-complete'; examples, the phase of every example      *)
(* animation started: "playing" while its animator plays, "stopped" when   *)
(* its controller was stopped, "shrinking" while the 1000 ms timer is      *)
(* pending, "complete"; timers, the pending attempt animations with their  *)
(* attempt number: "delay" while the 100 ms timer is pending, "moving"     *)
(* while the 1000 ms timer is pending, "removed" when cleanupAnimations    *)
(* has removed the moving canvas) and the DrawingManager.  drawable tells  *)
(* whether the example of the exercise has an extent and a canvas to play  *)
(* on.  Sounds, the history display and the create-exercise view are left  *)
(* out.                                                                    *)
(***************************************************************************)
MAX_ATTEMPTS == 5

GameManager ==
    [currentExercise |-> FALSE, currentAttempt |-> 0, attempts |-> 0, drawable |-> FALSE,
     view |-> "welcome",
     exampleAnimationInProgress |-> FALSE, attemptAnimationInProgress |-> FALSE,
     events |-> NoListeners, examples |-> << >>, timers |-> << >>,
     drawingManager |-> DrawingManager]

\* the element document.querySelector finds for the drawing canvas of the
\* attempt view, which stays in the document whatever view is shown
drawingCanvas == [width |-> 4, height |-> 4]

\* UIManager.cleanupAnimations: the flags are reset and the elements that
\* are moving are removed; no timer is cleared
cleanupAnimations(g) ==
    [g EXCEPT !.exampleAnimationInProgress = FALSE,
              !.attemptAnimationInProgress = FALSE,
              !.timers = [i \in DOMAIN g.timers |->
                             IF g.timers[i].phase = "moving"
                             THEN [g.timers[i] EXCEPT !.phase = "removed"]
                             ELSE g.timers[i]]]

\* UIManager.showExampleDrawing once cleanupAnimations has run
showExampleCleaned(g) ==
    IF g.exampleAnimationInProgress THEN g
    ELSE IF ~g.drawable THEN g
    ELSE [g EXCEPT !.exampleAnimationInProgress = TRUE,
                   !.examples = Append([i \in DOMAIN g.examples |->
                                           IF g.examples[i] = "playing" THEN "stopped"
                                           ELSE g.examples[i]],
                                       "playing")]

\* UIManager.showExampleDrawing
showExampleDrawing(g) == showExampleCleaned(cleanupAnimations(g))

\* UIManager.animateDrawingToHistory
animateDrawingToHistory(g, attemptNumber) ==
    IF g.attemptAnimationInProgress THEN g
    ELSE [g EXCEPT !.attemptAnimationInProgress = TRUE,
                   !.timers = Append(@, [attemptNumber |-> attemptNumber,
                                         phase |-> "delay"])]

\* GameManager.showScoreScreen: calculateScore throws on an empty attempts
\* list, which ends the handler
showScoreScreen(g) ==
    IF ~g.currentExercise THEN g
    ELSE IF g.attempts = 0 THEN g
    ELSE [g EXCEPT !.view = "score"]

\* GameManager.startNextAttempt once currentAttempt is incremented
startAttempt(g) ==
    IF g.currentAttempt > MAX_ATTEMPTS THEN showScoreScreen(g)
    ELSE [g EXCEPT !.drawingManager = enable(reset(setCanvas(@, drawingCanvas)))]

\* GameManager.startNextAttempt
startNextAttempt(g) == startAttempt([g EXCEPT !.currentAttempt = @ + 1])

\* the listener handleExerciseSelected and handleTryAgain register for
\* 'example-animation-complete': it removes this.startNextAttempt, not itself
oneTimeListener(g) ==
    [startNextAttempt(g) EXCEPT
        !.events = off(@, "example-animation-complete", "startNextAttempt")]

\* GameManager.handleExerciseSelected
handleExerciseSelected(g, drawable) ==
    [showExampleDrawing([g EXCEPT !.currentExercise = TRUE, !.currentAttempt = 0,
                                  !.attempts = 0, !.drawable = drawable])
        EXCEPT !.events = on(@, "example-animation-complete", "listener"),
               !.view = "attempt"]

\* GameManager.handleTryAgain
handleTryAgain(g) ==
    IF ~g.currentExercise THEN g
    ELSE [showExampleDrawing([g EXCEPT !.currentAttempt = 0])
            EXCEPT !.events = on(@, "example-animation-complete", "listener"),
                   !.view = "attempt"]

\* GameManager.handleBackToMenu
handleBackToMenu(g) ==
    [cleanupAnimations([g EXCEPT !.currentExercise = FALSE, !.currentAttempt = 0])
        EXCEPT !.view = "welcome"]

\* GameManager.handleLoadExercise
handleLoadExercise(g) == [g EXCEPT !.view = "exercise-list"]

\* GameManager.handleDoneButtonClicked once drawing is disabled
saveAttempt(g) ==
    animateDrawingToHistory(
        IF g.currentAttempt > 0 /\ g.currentAttempt <= MAX_ATTEMPTS
        THEN [g EXCEPT !.attempts = IF @ < g.currentAttempt THEN g.currentAttempt ELSE @]
        ELSE g,
        g.currentAttempt)

\* GameManager.handleDoneButtonClicked
handleDoneButtonClicked(g) ==
    IF ~g.currentExercise THEN g
    ELSE saveAttempt([g EXCEPT !.drawingManager = disable(@)])

\* GameManager.handleAttemptAnimationComplete
handleAttemptAnimationComplete(g, attemptNumber) ==
    IF attemptNumber >= MAX_ATTEMPTS THEN showScoreScreen(g) ELSE startNextAttempt(g)

\* emit('example-animation-complete'): every listener of the copy is called
RECURSIVE exampleCompleteFrom(_, _, _)
exampleCompleteFrom(g, callbacksCopy, i) ==
    IF i > Len(callbacksCopy) THEN g
    ELSE exampleCompleteFrom(oneTimeListener(g), callbacksCopy, i + 1)

\* the 1000 ms timer of showExampleDrawing for the i-th example animation
exampleTimer(g, i) ==
    exampleCompleteFrom(
        [g EXCEPT !.examples[i] = "complete", !.exampleAnimationInProgress = FALSE],
        emit(g.events, "example-animation-complete"), 1)

\* the 1000 ms timer of animateDrawingToHistory for the i-th pending attempt
\* animation: removeChild throws when the moving canvas has been removed
attemptTimer(g, i) ==
    IF g.timers[i].phase = "removed"
    THEN [g EXCEPT !.timers = SubSeq(@, 1, i - 1) \o SubSeq(@, i + 1, Len(@))]
    ELSE handleAttemptAnimationComplete(
            [g EXCEPT !.timers = SubSeq(@, 1, i - 1) \o SubSeq(@, i + 1, Len(@)),
                      !.attemptAnimationInProgress = FALSE],
            g.timers[i].attemptNumber)

\* no event handled yet
NoGameLog == [last |-> "none"]

\* the components after construction
Constructed ==
    /\ animation = AnimationController
    /\ taskLog = NoTaskLog
    /\ drawingManager = DrawingManager
    /\ clock = 1
    /\ handed = << >>
    /\ storage = StorageManager
    /\ storageLog = NoStorageLog
    /\ emitter = NoListeners
    /\ emitterLog = NoEmitterLog
    /\ game = GameManager
    /\ gameLog = NoGameLog
    /\ animator = ExampleDrawingAnimator(1, 0)
    /\ animatorLog = NoAnimatorLog
    /\ calls = << >>

(***************************************************************************)
(* The inputs of the model: a 4 x 4 canvas, a 2 x 2 constraint box (which  *)
(* calculateConstraintAdherence centres on the canvas: x and y in [1, 3]), *)
(* and six drawings.  Coordinates stay small and times below 1000 so that  *)
(* every intermediate value of a well-formed drawing is representable.     *)
(***************************************************************************)
MaxAttempts == 2
MaxListeners == 1
Canvas == 4

Box == ConstraintBoxSize(2, 2)

\* a tap on the canvas origin: a single point at (0, 0)
TapOrigin == StrokeData(<< Point(0, 0) >>, 0, 0)
\* a perfectly vertical stroke, right of the box
Vertical == StrokeData(<< Point(4, 1), Point(4, 3) >>, 0, 100)
\* a horizontal stroke inside the box
Horizontal == StrokeData(<< Point(1, 2), Point(3, 2) >>, 0, 20)
\* the canvas diagonal: both end points outside the box
Diagonal == StrokeData(<< Point(0, 0), Point(4, 4) >>, 30, 50)
\* a two-segment stroke inside the box
Hook == StrokeData(<< Point(1, 1), Point(1, 3), Point(3, 3) >>, 60, 100)

EmptyInstant == DrawingData(<< >>, 0, Canvas, Canvas)
EmptyTimed == DrawingData(<< >>, 50, Canvas, Canvas)
Tap == DrawingData(<< TapOrigin >>, 0, Canvas, Canvas)
Line == DrawingData(<< Vertical >>, 100, Canvas, Canvas)
TwoStrokes == DrawingData(<< Horizontal, Diagonal >>, 50, Canvas, Canvas)
ThreeStrokes == DrawingData(<< Horizontal, Diagonal, Hook >>, 100, Canvas, Canvas)

Drawings == { EmptyInstant, EmptyTimed, Tap, Line, TwoStrokes, ThreeStrokes }

\* the values Math.random() returns in a scoring call: the least and the
\* greatest value of [0, 1)
RandomDraws == { 0, Scale - 1 }

\* the callbacks a client registers
Callbacks == { "listener" }

\* the arguments of normalizedScoreToStars applied on its own: every
\* number from -1 to 2, both infinities and NaN
StarInputs == ((0 - Scale)..(2 * Scale)) \cup { Infinity, NegInfinity, NaN }

\* the arguments of generateFeedback applied on its own: every integer
\* score, and values of Math.random() that include both sides of each third
FeedbackScores == { Num(n) : n \in 0..MAX_SCORE }
FeedbackDraws ==
    { r \in 0..(Scale - 1) : r % 37 = 0 } \cup { 333, 334, 666, 667, Scale - 1 }

(***************************************************************************)
(* The state machine.  A client builds the attempts list (GameManager      *)
(* appends each captured attempt, src/unnamed/part_008), registers and     *)
(* removes listeners, and calls calculateScore.                            *)
(***************************************************************************)
\* the scores of a call's outcome: what it threw, or the total score and
\* the categories it returned
scoresOf(result) ==
    [thrown |-> result.thrown,
     returned |-> [i \in DOMAIN result.returned |->
                     [totalScore |-> result.returned[i].totalScore,
                      categories |-> result.returned[i].categories]]]

\* the record kept of a call: its arguments, its scores and the callbacks
\* it invoked
callRecord(example, attempts, constraintBoxes, result, invoked) ==
    [example |-> example, attempts |-> attempts,
     constraintBoxes |-> constraintBoxes, scores |-> scoresOf(result),
     notified |-> invoked]

Idle ==
    /\ events = << >>
    /\ outcome = << >>
    /\ notified = << >>
    /\ firstCall = << >>
    /\ Constructed

NoProbe ==
    /\ probe = << >>
    /\ probed = << >>

Init ==
    /\ Idle
    /\ NoProbe
    /\ argExample \in Drawings
    /\ argAttempts = << >>
    /\ argBoxes \in { << >>, << Box >> }

\* the client appends an attempt, with or without a constraint box for it
AddAttempt ==
    /\ outcome = << >>
    /\ Len(argAttempts) < MaxAttempts
    /\ \E attempt \in Drawings, withBox \in BOOLEAN :
          /\ argAttempts' = Append(argAttempts, attempt)
          /\ argBoxes' = IF withBox /\ Len(argBoxes) = Len(argAttempts)
                         THEN Append(argBoxes, Box)
                         ELSE argBoxes
    /\ UNCHANGED << events, argExample, outcome, notified, firstCall, probe, probed >>
    /\ UNCHANGED componentVars

\* scoreManager.on('score-calculated', callback)
On ==
    /\ Len(emit(events, "score-calculated")) < MaxListeners
    /\ \E callback \in Callbacks : events' = on(events, "score-calculated", callback)
    /\ UNCHANGED << argExample, argAttempts, argBoxes, outcome, notified, firstCall,
                    probe, probed >>
    /\ UNCHANGED componentVars

\* scoreManager.off('score-calculated', callback)
Off ==
    /\ \E callback \in Callbacks : events' = off(events, "score-calculated", callback)
    /\ UNCHANGED << argExample, argAttempts, argBoxes, outcome, notified, firstCall,
                    probe, probed >>
    /\ UNCHANGED componentVars

\* scoreManager.calculateScore(example, attempts, constraintBoxes)
Score ==
    /\ \E random \in RandomDraws :
          outcome' = << calculateScore(argExample, argAttempts, argBoxes, random) >>
    /\ notified' = callbacksInvoked(events, outcome'[1])
    /\ argExample' = argumentsAfter(argExample, argAttempts, argBoxes)[1]
    /\ argAttempts' = argumentsAfter(argExample, argAttempts, argBoxes)[2]
    /\ argBoxes' = argumentsAfter(argExample, argAttempts, argBoxes)[3]
    /\ firstCall' = IF firstCall = << >>
                    THEN << callRecord(argExample, argAttempts, argBoxes, outcome'[1],
                                       notified') >>
                    ELSE firstCall
    /\ UNCHANGED << events, probe, probed >>
    /\ UNCHANGED componentVars

\* the client scores the attempts it has collected
Call ==
    /\ outcome = << >>
    /\ Score

Next == AddAttempt \/ Call

Spec == Init /\ [][Next]_vars

\* Repeated calls, on the same and on other arguments, with listeners
\* coming and going.
ListenerAttempts == { << >> } \cup { << attempt >> : attempt \in Drawings }

InitListeners ==
    /\ Idle
    /\ NoProbe
    /\ argExample \in Drawings
    /\ argAttempts \in ListenerAttempts
    /\ argBoxes \in { << >>, << Box >> }

\* the client prepares another attempts list for the same example
Replace ==
    /\ argAttempts' \in ListenerAttempts
    /\ argBoxes' \in { << >>, << Box >> }
    /\ outcome' = << >>
    /\ notified' = << >>
    /\ UNCHANGED << events, argExample, firstCall, probe, probed >>
    /\ UNCHANGED componentVars

NextListeners == On \/ Off \/ Replace \/ Score

SpecListeners == InitListeners /\ [][NextListeners]_vars

\* normalizedScoreToStars applied on its own.
InitStars ==
    /\ Idle
    /\ argExample = EmptyInstant
    /\ argAttempts = << >>
    /\ argBoxes = << >>
    /\ probe \in StarInputs
    /\ probed = << >>

Stars ==
    /\ probed = << >>
    /\ probed' = << normalizedScoreToStars(probe) >>
    /\ UNCHANGED << events, argExample, argAttempts, argBoxes, outcome, notified,
                    firstCall, probe >>
    /\ UNCHANGED componentVars

NextStars == Stars

SpecStars == InitStars /\ [][NextStars]_vars

\* normalizeDrawing applied on its own: the bounding box and the scale it
\* finds for a drawing of one stroke, with coordinates on both sides of 0.
MaxCoordinate == 2
NormalizePoints ==
    { Point(x, y) : x \in (0 - MaxCoordinate)..MaxCoordinate,
                    y \in (0 - MaxCoordinate)..MaxCoordinate }
NormalizeInputs ==
    { DrawingData(<< StrokeData(points, 0, 10) >>, 10, Canvas, Canvas) :
        points \in { << p >> : p \in NormalizePoints } \cup
                   { << p, q >> : p \in NormalizePoints, q \in NormalizePoints } }

\* what normalizeDrawing computes before it builds the strokes
normalizeMeasures(box) ==
    [box |-> box,
     scale |-> scaleFactor(FSub(box.maxX, box.minX), FSub(box.maxY, box.minY))]

InitNormalize ==
    /\ Idle
    /\ argExample = EmptyInstant
    /\ argAttempts = << >>
    /\ argBoxes = << >>
    /\ probe \in NormalizeInputs
    /\ probed = << >>

Normalize ==
    /\ probed = << >>
    /\ probed' = << normalizeMeasures(boundingBox(probe)) >>
    /\ UNCHANGED << events, argExample, argAttempts, argBoxes, outcome, notified,
                    firstCall, probe >>
    /\ UNCHANGED componentVars

NextNormalize == Normalize

SpecNormalize == InitNormalize /\ [][NextNormalize]_vars

\* generateFeedback applied on its own.
InitFeedback ==
    /\ Idle
    /\ argExample = EmptyInstant
    /\ argAttempts = << >>
    /\ argBoxes = << >>
    /\ probe \in [score : FeedbackScores, random : FeedbackDraws]
    /\ probed = << >>

Feedback ==
    /\ probed = << >>
    /\ probed' = << [category |-> feedbackCategory(probe.score),
                     index |-> randomIndex(probe.score, probe.random),
                     feedback |-> generateFeedback(probe.score, probe.random)] >>
    /\ UNCHANGED << events, argExample, argAttempts, argBoxes, outcome, notified,
                    firstCall, probe >>
    /\ UNCHANGED componentVars

NextFeedback == Feedback

SpecFeedback == InitFeedback /\ [][NextFeedback]_vars

\* The AnimationController driven by a client, by the window's frames and
\* by the callbacks its loop invokes.  A callback runs inside loop: no
\* other operation starts while loop is iterating.
InitAnimation ==
    /\ Idle
    /\ NoProbe
    /\ argExample = EmptyInstant
    /\ argAttempts = << >>
    /\ argBoxes = << >>

\* controller.schedule(callback), by a client
Schedule ==
    /\ ~animation.iterating
    /\ animation.idCounter < MaxTasks
    /\ animation.frameCounter <= MaxFrames
    /\ animation' = schedule(animation)
    /\ taskLog' = logged(taskLog, "schedule", {})
    /\ UNCHANGED notAnimationVars

\* controller.cancel(handle), by a client, for a handle schedule returned
Cancel ==
    /\ ~animation.iterating
    /\ \E handle \in 0..(animation.idCounter - 1) :
          /\ animation' = cancel(animation, handle)
          /\ taskLog' = logged(taskLog, "cancel", {handle})
    /\ UNCHANGED notAnimationVars

\* controller.stop(), by a client (UIManager, src/unnamed/part_004)
Stop ==
    /\ ~animation.iterating
    /\ animation' = stop(animation)
    /\ taskLog' = logged(taskLog, "stop", {})
    /\ UNCHANGED notAnimationVars

\* controller.start(), by a client
Start ==
    /\ ~animation.iterating
    /\ animation.frameCounter <= MaxFrames
    /\ animation' = start(animation)
    /\ taskLog' = logged(taskLog, "start", {})
    /\ UNCHANGED notAnimationVars

\* the window runs the oldest requested frame callback: loop is entered
Frame ==
    /\ ~animation.iterating
    /\ Len(animation.requested) > 0
    /\ animation' = loopEnter(animation)
    /\ taskLog' = logged(taskLog, "frame", {})
    /\ UNCHANGED notAnimationVars

\* loop invokes the callback of the next entry of its copy; the callback
\* may cancel a handle and schedule a task, and returns done or not
Invoke ==
    /\ animation.iterating
    /\ Len(animation.copy) > 0
    /\ \E cancelled \in (0 - 1)..(animation.idCounter - 1),
          schedules \in BOOLEAN, done \in BOOLEAN :
          /\ schedules => /\ animation.idCounter < MaxTasks
                          /\ animation.frameCounter <= MaxFrames
          /\ animation' = loopAfterCallback(
                              callbackEffect(animation, cancelled, schedules), done)
          /\ taskLog' = loggedInvocation(taskLog, Head(animation.copy),
                            IF cancelled >= 0 THEN {cancelled} ELSE {}, done)
    /\ UNCHANGED notAnimationVars

\* loop has visited every entry of its copy
LoopExit ==
    /\ animation.iterating
    /\ Len(animation.copy) = 0
    /\ Len(animation.tasks) > 0 => animation.frameCounter <= MaxFrames
    /\ animation' = loopExit(animation)
    /\ taskLog' = logged(taskLog, "tick", {})
    /\ UNCHANGED notAnimationVars

NextAnimation == Schedule \/ Cancel \/ Stop \/ Start \/ Frame \/ Invoke \/ LoopExit

SpecAnimation == InitAnimation /\ [][NextAnimation]_vars

\* The DrawingManager driven by its client (GameManager and UIManager:
\* initialize, setCanvas, enable, disable, reset, getDrawingData), by the
\* pointer events of the canvas and by the clock.
Canvases == { [width |-> Canvas, height |-> Canvas],
              [width |-> 2 * Canvas, height |-> Canvas] }

\* the canvas-relative positions of the pointer
Positions == { << 3, 2 >> }

InitCapture ==
    /\ Idle
    /\ NoProbe
    /\ argExample = EmptyInstant
    /\ argAttempts = << >>
    /\ argBoxes = << >>

\* drawingManager.initialize(canvasElement)
Initialize ==
    /\ \E canvasElement \in Canvases :
          drawingManager' = initialize(drawingManager, canvasElement)
    /\ UNCHANGED << clock, handed, notCaptureVars >>

\* drawingManager.setCanvas(canvas)
SetCanvas ==
    /\ \E canvasElement \in Canvases :
          drawingManager' = setCanvas(drawingManager, canvasElement)
    /\ UNCHANGED << clock, handed, notCaptureVars >>

\* drawingManager.enable()
Enable ==
    /\ drawingManager' = enable(drawingManager)
    /\ UNCHANGED << clock, handed, notCaptureVars >>

\* drawingManager.disable()
Disable ==
    /\ drawingManager' = disable(drawingManager)
    /\ UNCHANGED << clock, handed, notCaptureVars >>

\* drawingManager.reset()
Reset ==
    /\ drawingManager' = reset(drawingManager)
    /\ UNCHANGED << clock, handed, notCaptureVars >>

\* a mousedown or touchstart event
PointerDown ==
    /\ Len(drawingManager.objects) < MaxStrokes
    /\ \E position \in Positions :
          drawingManager' = handleStart(drawingManager, position[1], position[2], clock)
    /\ UNCHANGED << clock, handed, notCaptureVars >>

\* a mousemove or touchmove event
PointerMove ==
    /\ \A i \in DOMAIN drawingManager.objects :
          Len(drawingManager.objects[i].points) < MaxPoints
    /\ \E position \in Positions :
          drawingManager' = handleMove(drawingManager, position[1], position[2], clock)
    /\ UNCHANGED << clock, handed, notCaptureVars >>

\* a mouseup, mouseleave or touchend event
PointerUp ==
    /\ drawingManager' = handleEnd(drawingManager, clock)
    /\ UNCHANGED << clock, handed, notCaptureVars >>

\* drawingManager.getDrawingData()
GetDrawingData ==
    /\ handed' = << [drawing |-> getDrawingData(drawingManager),
                     value |-> drawingValue(drawingManager.objects,
                                            getDrawingData(drawingManager))] >>
    /\ UNCHANGED << drawingManager, clock, notCaptureVars >>

\* time passes
ClockAdvance ==
    /\ clock < MaxClock
    /\ clock' = clock + 1
    /\ UNCHANGED << drawingManager, handed, notCaptureVars >>

NextCapture ==
    \/ Initialize \/ SetCanvas \/ Enable \/ Disable \/ Reset
    \/ PointerDown \/ PointerMove \/ PointerUp
    \/ GetDrawingData \/ ClockAdvance

SpecCapture == InitCapture /\ [][NextCapture]_vars

\* The StorageManager driven by its client (GameManager): every call is
\* made with any id; setItem may throw for either key when an exercise is
\* added, which is when the stored items grow.
InitStorage ==
    /\ Idle
    /\ NoProbe
    /\ argExample = EmptyInstant
    /\ argAttempts = << >>
    /\ argBoxes = << >>

\* whether an exercise with this id is in the list
Known(id) == findIndex(storage.exercises, id) # 0

\* storageManager.initialize()
InitializeStorage ==
    /\ storage' = storageInitialize(storage)
    /\ storageLog' = [operation |-> "initialize", id |-> "", known |-> FALSE,
                      saved |-> [id \in Ids |-> {}],
                      pure |-> [id \in Ids |-> FALSE]]
    /\ UNCHANGED notStorageVars

\* storageManager.saveExercise(exercise), with a new exercise as
\* GameManager.handleSaveExercise creates it
SaveExercise ==
    /\ Len(storage.exercises) < MaxExercises
    /\ \E id \in Ids, adultDrawing \in AdultDrawings, failing \in SUBSET STORAGE_KEYS :
          /\ storage' = saveExercise(storage,
                                     [id |-> id, adultDrawing |-> adultDrawing,
                                      attempts |-> 0, highestScore |-> << >>],
                                     failing)
          /\ storageLog' = [storageLog EXCEPT
                               !.operation = "saveExercise", !.id = id,
                               !.known = Known(id),
                               !.saved[id] = {},
                               !.pure[id] = ~Known(id)]
    /\ UNCHANGED notStorageVars

\* storageManager.updateExercise(updatedExercise)
UpdateExercise ==
    /\ \E id \in Ids, adultDrawing \in AdultDrawings, attempts \in AttemptLists,
          highestScore \in { << >> } \cup { << [totalScore |-> t] >> : t \in TotalScores } :
          /\ storage' = updateExercise(storage,
                                       [id |-> id, adultDrawing |-> adultDrawing,
                                        attempts |-> attempts,
                                        highestScore |-> highestScore],
                                       {})
          /\ storageLog' = [storageLog EXCEPT
                               !.operation = "updateExercise", !.id = id,
                               !.known = Known(id),
                               !.saved[id] = {},
                               !.pure[id] = FALSE]
    /\ UNCHANGED notStorageVars

\* storageManager.deleteExercise(id)
DeleteExercise ==
    /\ \E id \in Ids :
          /\ storage' = deleteExercise(storage, id, {})
          /\ storageLog' = [storageLog EXCEPT
                               !.operation = "deleteExercise", !.id = id,
                               !.known = Known(id),
                               !.saved[id] = {},
                               !.pure[id] = FALSE]
    /\ UNCHANGED notStorageVars

\* storageManager.saveExerciseResult(exercise, score)
SaveExerciseResult ==
    /\ \E id \in Ids, attempts \in AttemptLists, totalScore \in TotalScores :
          /\ storage' = saveExerciseResult(storage,
                                           [id |-> id, attempts |-> attempts],
                                           [totalScore |-> totalScore],
                                           {})
          /\ storageLog' = [storageLog EXCEPT
                               !.operation = "saveExerciseResult", !.id = id,
                               !.known = Known(id),
                               !.saved[id] = IF isRejected(storage') THEN @
                                             ELSE @ \cup { totalScore },
                               !.pure[id] = @ /\ ~isRejected(storage')]
    /\ UNCHANGED notStorageVars

NextStorage ==
    \/ InitializeStorage \/ SaveExercise \/ UpdateExercise \/ DeleteExercise
    \/ SaveExerciseResult

SpecStorage == InitStorage /\ [][NextStorage]_vars

\* An EventEmitter driven by its clients: on, off, emit and
\* removeAllListeners with any event and callback.
MaxRegistered == 3
EmitterEvents == { "test-event" }
EmitterCallbacks == { "plain", "throwing", "removing", "adding" }
EmitterArgs == { << >>, << "test-data" >> }

InitEmitter ==
    /\ Idle
    /\ NoProbe
    /\ argExample = EmptyInstant
    /\ argAttempts = << >>
    /\ argBoxes = << >>

\* emitter.on(event, callback)
EmitterOn ==
    /\ \E event \in EmitterEvents, callback \in EmitterCallbacks :
          /\ Len(emit(emitter, event)) < MaxRegistered
          /\ emitter' = on(emitter, event, callback)
          /\ emitterLog' = [NoEmitterLog EXCEPT
                               !.operation = "on", !.event = event, !.callback = callback,
                               !.before = emitter,
                               !.removed = emitterLog.removed \ { << event, callback >> },
                               !.removedBefore = emitterLog.removed]
    /\ UNCHANGED notEmitterVars

\* emitter.off(event, callback)
EmitterOff ==
    /\ \E event \in EmitterEvents, callback \in EmitterCallbacks :
          /\ emitter' = off(emitter, event, callback)
          /\ emitterLog' = [NoEmitterLog EXCEPT
                               !.operation = "off", !.event = event, !.callback = callback,
                               !.before = emitter,
                               !.removed = emitterLog.removed \cup { << event, callback >> },
                               !.removedBefore = emitterLog.removed]
    /\ UNCHANGED notEmitterVars

\* emitter.emit(event, ...args)
EmitterEmit ==
    /\ \E event \in EmitterEvents, args \in EmitterArgs :
          /\ Len(emit(emitEvent(emitter, event, args).events, event)) <= MaxRegistered
          /\ emitter' = emitEvent(emitter, event, args).events
          /\ emitterLog' = [NoEmitterLog EXCEPT
                               !.operation = "emit", !.event = event, !.args = args,
                               !.before = emitter,
                               !.removed = removedAfter(emitterLog.removed,
                                                        emit(emitter, event), event, 1),
                               !.removedBefore = emitterLog.removed,
                               !.invoked = emitEvent(emitter, event, args).invoked,
                               !.logged = emitEvent(emitter, event, args).logged,
                               !.thrown = emitEvent(emitter, event, args).thrown]
    /\ UNCHANGED notEmitterVars

\* emitter.removeAllListeners()
RemoveAllListeners ==
    /\ emitter' = removeAllListeners(emitter)
    /\ emitterLog' = [NoEmitterLog EXCEPT
                         !.operation = "removeAllListeners",
                         !.before = emitter,
                         !.removed = emitterLog.removed,
                         !.removedBefore = emitterLog.removed]
    /\ UNCHANGED notEmitterVars

NextEmitter == EmitterOn \/ EmitterOff \/ EmitterEmit \/ RemoveAllListeners

SpecEmitter == InitEmitter /\ [][NextEmitter]_vars

(***************************************************************************)
(* The game: the user's clicks, which the current view offers, and the     *)
(* timers and promises of the animations, in any order.                    *)
(***************************************************************************)
MaxRounds == 2
MaxPending == 2

InitGame ==
    /\ Idle
    /\ NoProbe
    /\ argExample = EmptyInstant
    /\ argAttempts = << >>
    /\ argBoxes = << >>

handled(name) == gameLog' = [last |-> name]

\* the rounds started so far: each one has registered a listener
rounds(g) == Len(emit(g.events, "example-animation-complete"))

\* 'load-template-clicked' from the welcome view
ClickLoadTemplate ==
    /\ game.view = "welcome"
    /\ game' = handleLoadExercise(game)
    /\ handled("load-template-clicked")
    /\ UNCHANGED notGameVars

\* 'exercise-selected' from the exercise list
SelectExercise ==
    /\ game.view = "exercise-list"
    /\ rounds(game) < MaxRounds
    /\ \E drawable \in BOOLEAN : game' = handleExerciseSelected(game, drawable)
    /\ handled("exercise-selected")
    /\ UNCHANGED notGameVars

\* 'back-clicked' from the exercise list
ClickBack ==
    /\ game.view = "exercise-list"
    /\ game' = handleBackToMenu(game)
    /\ handled("back-clicked")
    /\ UNCHANGED notGameVars

\* 'done-button-clicked' from the attempt view
ClickDone ==
    /\ game.view = "attempt"
    /\ Len(game.timers) < MaxPending
    /\ game' = handleDoneButtonClicked(game)
    /\ handled("done-button-clicked")
    /\ UNCHANGED notGameVars

\* 'try-again-clicked' from the score view
ClickTryAgain ==
    /\ game.view = "score"
    /\ rounds(game) < MaxRounds
    /\ game' = handleTryAgain(game)
    /\ handled("try-again-clicked")
    /\ UNCHANGED notGameVars

\* 'back-to-menu-clicked' from the score view
ClickBackToMenu ==
    /\ game.view = "score"
    /\ game' = handleBackToMenu(game)
    /\ handled("back-to-menu-clicked")
    /\ UNCHANGED notGameVars

\* the promise of animator.play resolves: the example starts to shrink
ExamplePlayed ==
    /\ \E i \in DOMAIN game.examples :
          /\ game.examples[i] = "playing"
          /\ game' = [game EXCEPT !.examples[i] = "shrinking"]
    /\ handled("example-played")
    /\ UNCHANGED notGameVars

\* the 1000 ms timer of an example animation fires
ExampleTimer ==
    /\ \E i \in DOMAIN game.examples :
          /\ game.examples[i] = "shrinking"
          /\ game' = exampleTimer(game, i)
    /\ handled("example-animation-complete")
    /\ UNCHANGED notGameVars

\* the 100 ms timer of an attempt animation fires
DelayTimer ==
    /\ \E i \in DOMAIN game.timers :
          /\ game.timers[i].phase = "delay"
          /\ game' = [game EXCEPT !.timers[i].phase = "moving"]
    /\ handled("attempt-animation-moving")
    /\ UNCHANGED notGameVars

\* the 1000 ms timer of an attempt animation fires
AttemptTimer ==
    /\ \E i \in DOMAIN game.timers :
          /\ game.timers[i].phase # "delay"
          /\ game' = attemptTimer(game, i)
          /\ handled(IF game.timers[i].phase = "removed"
                     THEN "attempt-animation-failed"
                     ELSE "attempt-animation-complete")
    /\ UNCHANGED notGameVars

NextGame ==
    \/ ClickLoadTemplate \/ SelectExercise \/ ClickBack \/ ClickDone
    \/ ClickTryAgain \/ ClickBackToMenu
    \/ ExamplePlayed \/ ExampleTimer \/ DelayTimer \/ AttemptTimer

SpecGame == InitGame /\ [][NextGame]_vars

(***************************************************************************)
(* The animator: one drawing is played; the frames of the controller come  *)
(* with any time between them.                                             *)
(***************************************************************************)
MaxAnimatedStrokes == 2
MaxAnimatedPoints == 3
MaxInterval == 2
MaxPause == 2
MaxDt == 3

\* the strokes a drawing can have: up to MaxAnimatedPoints points each
AnimatedStrokes ==
    { StrokeData([k \in 1..n |-> Point(k, 0)], 0, 10) : n \in 0..MaxAnimatedPoints }

AnimatedDrawings ==
    { DrawingData(strokes, 10, Canvas, Canvas) :
        strokes \in {<< >>} \cup { <<p>> : p \in AnimatedStrokes }
                            \cup { <<p, q>> : p, q \in AnimatedStrokes } }

InitAnimator ==
    /\ Idle
    /\ NoProbe
    /\ argExample = EmptyInstant
    /\ argAttempts = << >>
    /\ argBoxes = << >>

count(emitted, event) == Cardinality({ k \in DOMAIN emitted : emitted[k].event = event })

\* what the log holds after a step that took dt and led to the animator a
animatorLogged(before, a, dt) ==
    [waited |-> IF count(a.emitted, "stroke-completed")
                      > count(before.emitted, "stroke-completed")
                THEN 0 ELSE animatorLog.waited + dt,
     pauses |-> IF count(a.emitted, "stroke-started")
                      > count(before.emitted, "stroke-started")
                THEN Append(animatorLog.pauses, animatorLog.waited + dt)
                ELSE animatorLog.pauses]

\* new ExampleDrawingAnimator(options) and animator.play(drawing)
Play ==
    /\ animator.settled = "none"
    /\ \E pointIntervalMs \in 1..MaxInterval, strokePauseMs \in 0..MaxPause,
          drawing \in AnimatedDrawings :
          animator' = play(ExampleDrawingAnimator(pointIntervalMs, strokePauseMs), drawing)
    /\ animatorLog' = NoAnimatorLog
    /\ UNCHANGED notAnimatorVars

\* a frame of the controller calls the step of animateStroke
StrokeFrame ==
    /\ animator.task = "stroke"
    /\ \E dt \in 0..MaxDt :
          /\ animator' = strokeStep(animator, dt)
          /\ animatorLog' = animatorLogged(animator, strokeStep(animator, dt), dt)
    /\ UNCHANGED notAnimatorVars

\* a frame of the controller calls the step of pause
PauseFrame ==
    /\ animator.task = "pause"
    /\ \E dt \in 0..MaxDt :
          /\ animator' = pauseStep(animator, dt)
          /\ animatorLog' = animatorLogged(animator, pauseStep(animator, dt), dt)
    /\ UNCHANGED notAnimatorVars

NextAnimator == Play \/ StrokeFrame \/ PauseFrame

SpecAnimator == InitAnimator /\ [][NextAnimator]_vars

(***************************************************************************)
(* Concurrent calls of the StorageManager: up to MaxCalls calls of         *)
(* saveExercise, updateExercise and deleteExercise, none of them awaited   *)
(* by its caller before the next is made.                                  *)
(***************************************************************************)
MaxCalls == 3

InitCalls ==
    /\ Idle
    /\ NoProbe
    /\ argExample = EmptyInstant
    /\ argAttempts = << >>
    /\ argBoxes = << >>

NewExercises ==
    { [id |-> id, adultDrawing |-> "line", attempts |-> 0, highestScore |-> << >>] :
        id \in Ids }

\* storageManager.saveExercise(exercise)
CallSaveExercise ==
    /\ Len(calls) < MaxCalls
    /\ \E exercise \in NewExercises :
          /\ ~Known(exercise.id)
          /\ storage' = saveExerciseCalled(storage, exercise)
          /\ calls' = Append(calls, StorageCall("saveExercise", exercise, "persistExercises"))
    /\ UNCHANGED notCallVars

\* storageManager.updateExercise(updatedExercise)
CallUpdateExercise ==
    /\ Len(calls) < MaxCalls
    /\ \E exercise \in NewExercises :
          IF Known(exercise.id)
          THEN /\ storage' = updateExerciseCalled(storage, [exercise EXCEPT !.attempts = 1])
               /\ calls' = Append(calls, StorageCall("updateExercise",
                                              [exercise EXCEPT !.attempts = 1],
                                              "persistExercises"))
          ELSE /\ storage' = storage
               /\ calls' = Append(calls, StorageCall("updateExercise", exercise, "rejected"))
    /\ UNCHANGED notCallVars

\* storageManager.deleteExercise(id)
CallDeleteExercise ==
    /\ Len(calls) < MaxCalls
    /\ \E id \in Ids :
          IF Known(id)
          THEN /\ storage' = deleteExerciseCalled(storage, id)
               /\ calls' = Append(calls, StorageCall("deleteExercise", [id |-> id],
                                              "persistExercises"))
          ELSE /\ storage' = storage
               /\ calls' = Append(calls, StorageCall("deleteExercise", [id |-> id], "rejected"))
    /\ UNCHANGED notCallVars

\* the promise that a call awaits has resolved: its continuation runs
Continue ==
    /\ \E i \in DOMAIN calls :
          /\ calls[i].awaiting \notin { "fulfilled", "rejected" }
          /\ storage' = continued(storage, calls[i])
          /\ calls' = [calls EXCEPT ![i].awaiting = awaitedNext(calls[i])]
    /\ UNCHANGED notCallVars

NextCalls == CallSaveExercise \/ CallUpdateExercise \/ CallDeleteExercise \/ Continue

SpecCalls == InitCalls /\ [][NextCalls]_vars

(***************************************************************************)
(* The properties.                                                         *)
(***************************************************************************)
\* a call has been made / has returned a ScoreResult
Called == outcome # << >>
Returned == Called /\ outcome[1].returned # << >>

\* the ScoreResult of the last call, its logged sub-scores, and the attempt
\* it scored
Result == outcome[1].returned[1]
SubScores == outcome[1].logged[1]
FinalAttempt == argAttempts[Len(argAttempts)]

\* the elements of a sequence
Range(seq) == { seq[i] : i \in DOMAIN seq }

\* the integers from a to b, as numbers
IntegersBetween(a, b) == { Num(n) : n \in a..b }

\* every coordinate of the drawing is finite
PointsFinite(drawing) ==
    \A i \in DOMAIN getAllPoints(drawing) :
        IsFinite(getAllPoints(drawing)[i].x) /\ IsFinite(getAllPoints(drawing)[i].y)

\* C1: a call with an empty attempts list throws, returns no ScoreResult
\* and emits no 'score-calculated' event, whatever the example and the
\* constraintBoxes argument.
C1_EmptyAttemptsThrow ==
    (Called /\ argAttempts = << >>) =>
        /\ outcome[1].thrown # << >>
        /\ outcome[1].returned = << >>
        /\ outcome[1].emitted = << >>
        /\ notified = << >>

C1_Witness ==
    /\ Called
    /\ argAttempts = << >>
    /\ argBoxes = << Box >>
    /\ argExample = ThreeStrokes
    /\ outcome[1].thrown = << "No attempts provided for scoring" >>

\* C2: every returned ScoreResult has an integer totalScore in [0, 100] and
\* integer categories in [1, 5].
C2_ScoresInRange ==
    Returned =>
        /\ Result.totalScore \in IntegersBetween(0, MAX_SCORE)
        /\ Result.categories.accuracy \in IntegersBetween(1, 5)
        /\ Result.categories.strokes \in IntegersBetween(1, 5)
        /\ Result.categories.timing \in IntegersBetween(1, 5)
        /\ Result.categories.overall \in IntegersBetween(1, 5)

\* C3: calculateScore(D, [D]) returns a totalScore in [90, 100], an overall
\* category of 5 and a feedback string of the excellent pool, for every D.
C3_IdenticalIsExcellent ==
    (Returned /\ argAttempts = << argExample >> /\ argBoxes = << >>) =>
        /\ Result.totalScore \in IntegersBetween(90, MAX_SCORE)
        /\ Result.categories.overall = Num(5)
        /\ Result.feedback \in Range(FEEDBACK.excellent)

\* the case of C4: a three-stroke example, an attempt without strokes
ThreeVersusNone ==
    /\ Returned
    /\ Len(argExample.strokes) = 3
    /\ Len(FinalAttempt.strokes) = 0

\* C4 as stated: with a three-stroke example and an attempt without strokes
\* the stroke-count term and the path similarity are 0, totalScore is near 0
\* (at most 12, the scores whose overall category is 1) and all four
\* categories are 1.
C4_Original ==
    ThreeVersusNone =>
        /\ strokeCountScore(argExample, FinalAttempt) = 0
        /\ calculatePathSimilarity(normalizeDrawing(argExample),
                                   normalizeDrawing(FinalAttempt)) = 0
        /\ Result.totalScore \in IntegersBetween(0, 12)
        /\ Result.categories.accuracy = Num(1)
        /\ Result.categories.strokes = Num(1)
        /\ Result.categories.timing = Num(1)
        /\ Result.categories.overall = Num(1)

\* C4, amended: with a three-stroke example and an attempt without strokes
\* the stroke-count term, the path similarity and the strokes score are 0
\* and the strokes category is 1; the accuracy score is 0.25 (the adherence
\* of an attempt without points is 1) and its category 2; the timing score
\* lies in [0.3, 0.7] and its category in 2..4; totalScore lies in 20..30
\* and the overall category is 2.  When a total time is not positive the
\* timing score is 0.5, its category 3 and totalScore 25.
C4_NoStrokesScoresLow ==
    ThreeVersusNone =>
        /\ strokeCountScore(argExample, FinalAttempt) = 0
        /\ calculatePathSimilarity(normalizeDrawing(argExample),
                                   normalizeDrawing(FinalAttempt)) = 0
        /\ SubScores.strokesScore = 0
        /\ Result.categories.strokes = Num(1)
        /\ SubScores.accuracyScore = Dec(25, 100)
        /\ Result.categories.accuracy = Num(2)
        /\ SubScores.timingScore >= Dec(3, 10)
        /\ SubScores.timingScore <= Dec(7, 10)
        /\ Result.categories.timing \in IntegersBetween(2, 4)
        /\ Result.totalScore \in IntegersBetween(20, 30)
        /\ Result.categories.overall = Num(2)
        /\ (argExample.totalTime <= 0 \/ FinalAttempt.totalTime <= 0) =>
              /\ SubScores.timingScore = Dec(5, 10)
              /\ Result.categories.timing = Num(3)
              /\ Result.totalScore = Num(25)

C4_Witness ==
    /\ ThreeVersusNone
    /\ FinalAttempt.totalTime > 0
    /\ argBoxes = << Box >>
    /\ Result.totalScore = Num(26)

\* the attempts list with every attempt but the last replaced
withEarlierReplaced(attempts, drawing) ==
    [i \in 1..Len(attempts) |-> IF i = Len(attempts) THEN attempts[i] ELSE drawing]

\* C5: the scores depend on the example, the last attempt and the box at
\* its index only: replacing the earlier attempts by any drawing leaves
\* what the call throws, totalScore and the categories unchanged.
C5_OnlyLastAttemptCounts ==
    (Called /\ Len(argAttempts) >= 2) =>
        \A drawing \in Drawings :
            scoresOf(calculateScore(argExample,
                                    withEarlierReplaced(argAttempts, drawing),
                                    argBoxes, 0))
                = scoresOf(outcome[1])

C5_Witness ==
    /\ Returned
    /\ Len(argAttempts) >= 2
    /\ argExample = TwoStrokes
    /\ argAttempts[1] = ThreeStrokes
    /\ FinalAttempt = TwoStrokes
    /\ argBoxes = << >>
    /\ Result.totalScore = Num(MAX_SCORE)

\* C6: for an attempt with at least one point, all of them outside the box,
\* the accuracy score with the box is strictly lower than without a box;
\* without a box the adherence term is exactly 1.
C6_ViolatedBoxLowersAccuracy ==
    (/\ Returned
     /\ Len(getAllPoints(FinalAttempt)) >= 1
     /\ calculateConstraintAdherence(FinalAttempt, Box) = 0) =>
        /\ FLt(calculateAccuracyScore(argExample, FinalAttempt, << Box >>),
               calculateAccuracyScore(argExample, FinalAttempt, << >>))
        /\ constraintAdherenceScore(FinalAttempt, << >>) = Num(1)

\* clamp(x, 0, 1), by cases
Clamped(x) == IF x < 0 THEN 0 ELSE IF x > Num(1) THEN Num(1) ELSE x

\* C7: for every input x the star mapping yields the integer nearest to
\* clamp(x, 0, 1) * 4 + 1 (halves rounded up), an integer in [1, 5];
\* star(0) = 1, star(0.5) = 3, star(1) = 5.
C7_StarMapping ==
    probed # << >> =>
        /\ probed[1] \in IntegersBetween(1, 5)
        /\ 2 * probed[1] - Scale <= 2 * (4 * Clamped(probe) + Scale)
        /\ 2 * (4 * Clamped(probe) + Scale) < 2 * probed[1] + Scale
        /\ probe = 0 => probed[1] = Num(1)
        /\ probe = Dec(5, 10) => probed[1] = Num(3)
        /\ probe = Num(1) => probed[1] = Num(5)

\* the band the claim assigns to a totalScore
BandOf(totalScore) ==
    IF totalScore \in IntegersBetween(90, 100) THEN "excellent"
    ELSE IF totalScore \in IntegersBetween(75, 89) THEN "veryGood"
    ELSE IF totalScore \in IntegersBetween(60, 74) THEN "good"
    ELSE IF totalScore \in IntegersBetween(40, 59) THEN "fair"
    ELSE "needsWork"

\* C8: for every totalScore in 0..100 and every random draw the feedback is
\* a string of the pool of the band of totalScore, and of no other pool,
\* and the index drawn lies inside the pool.
C8_FeedbackFromBand ==
    probed # << >> =>
        /\ probed[1].category = BandOf(probe.score)
        /\ probed[1].index + 1 \in DOMAIN FEEDBACK[BandOf(probe.score)]
        /\ probed[1].feedback \in Range(FEEDBACK[BandOf(probe.score)])
        /\ \A band \in DOMAIN FEEDBACK :
              band # BandOf(probe.score) =>
                  probed[1].feedback \notin Range(FEEDBACK[band])

C8_Witness ==
    /\ probed # << >>
    /\ probe.score = Num(89)
    /\ probe.random = Scale - 1
    /\ probed[1].feedback = "Great job! You're getting better each time!"

\* C9: every value a call computes is finite: the sub-scores reaching the
\* composer and the points and dimensions of both normalized drawings.
C9_EveryValueFinite ==
    Returned =>
        /\ IsFinite(SubScores.accuracyScore)
        /\ IsFinite(SubScores.strokesScore)
        /\ IsFinite(SubScores.timingScore)
        /\ IsFinite(normalizeDrawing(argExample).width)
        /\ IsFinite(normalizeDrawing(argExample).height)
        /\ IsFinite(normalizeDrawing(FinalAttempt).width)
        /\ IsFinite(normalizeDrawing(FinalAttempt).height)
        /\ PointsFinite(normalizeDrawing(argExample))
        /\ PointsFinite(normalizeDrawing(FinalAttempt))

C11_StopsWhenNoTasks ==
    /\ (taskLog.last \in {"tick", "cancel"} /\ Len(animation.tasks) = 0) =>
          /\ ~animation.running
          /\ animation.requested = << >>
    /\ taskLog.last = "schedule" =>
          /\ animation.running
          /\ animation.requested # << >>

\* C12: loop never invokes the callback of a handle that was cancelled
\* before, by a client or by a callback earlier in the same tick, or that
\* has returned done before.
C12_NoInvocationAfterCancel ==
    taskLog.invoking # << >> =>
        /\ ~taskLog.invoking[1].wasCancelled
        /\ ~taskLog.invoking[1].wasDone


\* the Drawing that getDrawingData returned last, as it reads now
Handed == drawingValue(drawingManager.objects, handed[1].drawing)

\* C13: in every state of the DrawingManager, isDrawing is true exactly when
\* currentStroke is set, and the stroke in progress is not in the list of
\* completed strokes.
C13_DrawingIffCurrentStroke ==
    /\ drawingManager.isDrawing <=> drawingManager.currentStroke # 0
    /\ \A i \in DOMAIN drawingManager.strokes :
          drawingManager.strokes[i] # drawingManager.currentStroke

\* a second stroke is in progress after a completed one
C13_Witness ==
    /\ drawingManager.isDrawing
    /\ drawingManager.currentStroke # 0
    /\ Len(drawingManager.strokes) >= 1

\* C14: every Drawing returned by getDrawingData has totalTime >= 0 when the
\* clock never goes back, a stroke started and not ended included.
C14_TotalTimeNotNegative ==
    handed # << >> => handed[1].drawing.totalTime >= 0

\* C15: in every Drawing returned by getDrawingData the stroke ids are
\* pairwise distinct, and every stroke has at least one point and an endTime
\* that is not before its startTime.
C15_StrokesWellFormed ==
    handed # << >> =>
        /\ \A i, j \in DOMAIN handed[1].value.strokes :
              i # j => handed[1].value.strokes[i].id # handed[1].value.strokes[j].id
        /\ \A i \in DOMAIN handed[1].value.strokes :
              /\ Len(handed[1].value.strokes[i].points) >= 1
              /\ handed[1].value.strokes[i].endTime >= handed[1].value.strokes[i].startTime

\* a Drawing of two strokes, one of which took time, was returned after a
\* stroke had been dropped
C15_Witness ==
    /\ handed # << >>
    /\ Len(handed[1].value.strokes) = 2
    /\ Len(drawingManager.objects) = 3
    /\ \E i \in DOMAIN handed[1].value.strokes :
          handed[1].value.strokes[i].endTime > handed[1].value.strokes[i].startTime

\* C16: the Drawing returned by getDrawingData (its list of strokes, and the
\* points, startTime and endTime of each stroke) reads the same after every
\* later operation of the DrawingManager.
C16_ReturnedDrawingUnchanged ==
    handed # << >> => Handed = handed[1].value

\* a Drawing with a stroke was returned, and since then the list of the
\* manager changed and another stroke was started and continued
C16_Witness ==
    /\ handed # << >>
    /\ Len(handed[1].drawing.strokes) >= 1
    /\ drawingManager.strokes # handed[1].drawing.strokes
    /\ drawingManager.currentStroke # 0
    /\ Len(drawingManager.objects[drawingManager.currentStroke].points) = 2

\* the greatest element of a set of total scores: one of them, and not
\* below any of them that is a number
isMaximum(value, values) ==
    /\ value \in values
    /\ \A other \in values : ~IsNaN(other) => FGe(value, other)

\* C17: after fulfilled saveExerciseResult calls for an exercise and nothing
\* else since it was created, the totalScore of its highestScore is the
\* maximum of the total scores saved.
C17_HighestScoreIsMaximum ==
    \A id \in Ids :
        (storageLog.pure[id] /\ storageLog.saved[id] # {}) =>
            /\ getExerciseById(storage, id) # << >>
            /\ getExerciseById(storage, id)[1].highestScore # << >>
            /\ isMaximum(getExerciseById(storage, id)[1].highestScore[1].totalScore,
                         storageLog.saved[id])

\* the three calls the claim of C18 is about
C18_Operations == { "updateExercise", "deleteExercise", "saveExerciseResult" }

\* C18: updateExercise, deleteExercise and saveExerciseResult called with an
\* id that is not in the list reject with 'Exercise with ID <id> not found'
\* and leave the list, the thumbnails and localStorage as they were.
C18_UnknownIdRejects ==
    [][(storageLog'.operation \in C18_Operations /\ ~storageLog'.known) =>
          /\ storage'.promise.status = "rejected"
          /\ storage'.promise.reason = << "Exercise with ID ", storageLog'.id, " not found" >>
          /\ storage'.exercises = storage.exercises
          /\ storage'.thumbnails = storage.thumbnails
          /\ storage'.localStorage = storage.localStorage]_vars

\* a call with an unknown id was made while another exercise was stored,
\* with its thumbnail, and persisted
C18_Witness ==
    /\ storageLog.operation \in C18_Operations
    /\ ~storageLog.known
    /\ storage.promise.status = "rejected"
    /\ Len(storage.exercises) >= 1
    /\ DOMAIN storage.thumbnails # {}
    /\ storage.localStorage.handwriting_exercises # << >>

\* the callbacks registered for the event of the last call when it started
RegisteredBefore == emit(emitterLog.before, emitterLog.event)

\* C19: an emit does not invoke a callback for which off(event, callback)
\* has returned before the emit started (and no on(event, callback) since);
\* an off for an event or a callback that is not registered changes
\* nothing and throws nothing.
C19_OffStopsInvocation ==
    /\ emitterLog.operation = "emit" =>
          \A i \in DOMAIN emitterLog.invoked :
              << emitterLog.event, emitterLog.invoked[i].callback >>
                  \notin emitterLog.removedBefore
    /\ (/\ emitterLog.operation = "off"
        /\ \A i \in DOMAIN RegisteredBefore : RegisteredBefore[i] # emitterLog.callback) =>
          /\ emitter = emitterLog.before
          /\ emitterLog.thrown = << >>

\* C20: an emit lets no error of a listener out, and invokes every listener
\* that was registered for the event when the emit started exactly once, in
\* the order of registration, with the arguments of the emit.
C20_ThrowingListenerIsContained ==
    emitterLog.operation = "emit" =>
        /\ emitterLog.thrown = << >>
        /\ emitterLog.invoked =
              [i \in DOMAIN RegisteredBefore |->
                  [callback |-> RegisteredBefore[i], args |-> emitterLog.args]]

\* an emit with arguments found a throwing listener registered before
\* another listener, and its error was logged
C20_Witness ==
    /\ emitterLog.operation = "emit"
    /\ emitterLog.args # << >>
    /\ Len(RegisteredBefore) >= 2
    /\ RegisteredBefore[1] = "throwing"
    /\ emitterLog.logged # << >>
    /\ Len(emitterLog.invoked) = Len(RegisteredBefore)

\* the least and the greatest of a set of finite numbers
LeastOf(values) == CHOOSE m \in values : \A v \in values : m <= v
GreatestOf(values) == CHOOSE m \in values : \A v \in values : m >= v

\* the x and the y coordinates of all points of a drawing
XsOf(drawing) == { getAllPoints(drawing)[i].x : i \in DOMAIN getAllPoints(drawing) }
YsOf(drawing) == { getAllPoints(drawing)[i].y : i \in DOMAIN getAllPoints(drawing) }

\* C21: the bounding box normalizeDrawing finds is the least and the greatest
\* x and y over all points, also when all coordinates are negative; the
\* scale is min(1/bw, 1/bh) when both extents are positive, else 1.
C21_ExactBoundingBox ==
    probed # << >> =>
        /\ probed[1].box.minX = LeastOf(XsOf(probe))
        /\ probed[1].box.maxX = GreatestOf(XsOf(probe))
        /\ probed[1].box.minY = LeastOf(YsOf(probe))
        /\ probed[1].box.maxY = GreatestOf(YsOf(probe))
        /\ probed[1].scale =
              IF GreatestOf(XsOf(probe)) > LeastOf(XsOf(probe))
                 /\ GreatestOf(YsOf(probe)) > LeastOf(YsOf(probe))
              THEN FMin(FDiv(Num(1), GreatestOf(XsOf(probe)) - LeastOf(XsOf(probe))),
                        FDiv(Num(1), GreatestOf(YsOf(probe)) - LeastOf(YsOf(probe))))
              ELSE Num(1)

\* the list of exercises that localStorage holds
persistedExercises(m) ==
    IF m.localStorage.handwriting_exercises = << >> THEN << >>
    ELSE m.localStorage.handwriting_exercises[1]

\* C22: a saveExercise that rejects leaves the list of exercises as it was
\* before the call, and after every call has settled the list in memory and
\* the persisted list agree.
C22_FailedSaveNotRetained ==
    [][/\ (storageLog'.operation = "saveExercise"
           /\ storage'.promise.status = "rejected") =>
              storage'.exercises = storage.exercises
       /\ stringify(storage'.exercises) = persistedExercises(storage')]_vars

\* a list of callbacks after the off and on calls of the callbacks invoked,
\* made in the order of the invocations
RECURSIVE afterCalls(_, _, _)
afterCalls(callbacks, invoked, i) ==
    IF i > Len(invoked) THEN callbacks
    ELSE afterCalls(
            IF invoked[i].callback = "adding" THEN Append(callbacks, "plain")
            ELSE IF invoked[i].callback = "removing"
                    /\ indexOfFrom(callbacks, "plain", 1) # 0
                 THEN splice(callbacks, indexOfFrom(callbacks, "plain", 1))
            ELSE callbacks,
            invoked, i + 1)

\* C23: an emit invokes the listeners of the list as it was when the emit
\* started: one added by a callback during the emission is not invoked in
\* it, one removed by a callback during the emission still is; after the
\* emission the list holds every addition and removal the callbacks made.
C23_EmitWorksOnSnapshot ==
    emitterLog.operation = "emit" =>
        /\ Len(emitterLog.invoked) = Len(RegisteredBefore)
        /\ \A i \in DOMAIN emitterLog.invoked :
              emitterLog.invoked[i].callback = RegisteredBefore[i]
        /\ emit(emitter, emitterLog.event) =
              afterCalls(RegisteredBefore, emitterLog.invoked, 1)

\* an emission in which a callback removed a listener that was invoked
\* after it
C23_Witness ==
    /\ emitterLog.operation = "emit"
    /\ RegisteredBefore = << "removing", "plain" >>
    /\ Len(emitterLog.invoked) = 2
    /\ emit(emitter, emitterLog.event) = << "removing" >>

\* an emission in which a callback added a listener
C23_AddedWitness ==
    /\ emitterLog.operation = "emit"
    /\ RegisteredBefore = << "adding" >>
    /\ emit(emitter, emitterLog.event) = << "adding", "plain" >>
(***************************************************************************)
(* C24: at most one example animation is in progress: a call of            *)
(* showExampleDrawing (made by handleExerciseSelected and handleTryAgain)  *)
(* while the flag of a running example animation is set starts no second   *)
(* animation.                                                              *)
(***************************************************************************)
C24_SecondCallStartsNothing ==
    [][(/\ gameLog'.last \in {"exercise-selected", "try-again-clicked"}
        /\ game.exampleAnimationInProgress)
       => game'.examples = game.examples]_vars

(***************************************************************************)
(* C26: every round starts at attempt 1: each 'example-animation-complete' *)
(* event increases currentAttempt by exactly 1, however many rounds have   *)
(* been played before.                                                     *)
(***************************************************************************)
C26_CompletionAddsOneAttempt ==
    [][gameLog'.last = "example-animation-complete"
       => game'.currentAttempt = game.currentAttempt + 1]_vars

(***************************************************************************)
(* C27: while the GameManager has no current exercise, currentAttempt      *)
(* stays 0 and no attempt is started: no event that arrives then           *)
(* increments the counter or enables drawing.                              *)
(***************************************************************************)
C27_NoAttemptWithoutExercise ==
    [][(~game.currentExercise /\ ~game'.currentExercise)
       => /\ game'.currentAttempt = 0
          /\ game'.drawingManager.isEnabled => game.drawingManager.isEnabled]_vars

(***************************************************************************)
(* C25: play replays the strokes strictly in order: what has been emitted  *)
(* is always the beginning of the sequence that has, for every stroke in   *)
(* turn, 'stroke-started', one 'point-added' for each point after the      *)
(* first in order, and 'stroke-completed'; every 'stroke-started' but the  *)
(* first came when at least the pause between strokes had passed since     *)
(* the 'stroke-completed' before it; and the promise is resolved only when *)
(* the whole sequence has been emitted.                                    *)
(***************************************************************************)
eventsOfStroke(strokes, s) ==
    << [event |-> "stroke-started", stroke |-> s] >>
    \o [k \in 1..(IF Len(strokes[s].points) = 0 THEN 0 ELSE Len(strokes[s].points) - 1) |->
           [event |-> "point-added", stroke |-> s, point |-> strokes[s].points[k + 1]]]
    \o << [event |-> "stroke-completed", stroke |-> s] >>

RECURSIVE eventsFrom(_, _)
eventsFrom(strokes, s) ==
    IF s > Len(strokes) THEN << >>
    ELSE eventsOfStroke(strokes, s) \o eventsFrom(strokes, s + 1)

isPrefix(p, q) == Len(p) <= Len(q) /\ SubSeq(q, 1, Len(p)) = p

C25_StrokesReplayedInOrder ==
    /\ isPrefix(animator.emitted, eventsFrom(animator.strokes, 1))
    /\ \A k \in DOMAIN animatorLog.pauses :
          animatorLog.pauses[k] >= animator.strokePauseMs
    /\ animator.settled = "resolved"
          => animator.emitted = eventsFrom(animator.strokes, 1)

\* a drawing of two strokes, the first of three points, played to the end
\* with a pause of two between the strokes
C25_Witness ==
    /\ animator.settled = "resolved"
    /\ Len(animator.strokes) = 2
    /\ Len(animator.strokes[1].points) = 3
    /\ Len(animator.strokes[2].points) = 2
    /\ animator.strokePauseMs = 2
    /\ Len(animator.emitted) = 7
    /\ Len(animatorLog.pauses) = 1

(***************************************************************************)
(* C28: the AnimationController has at most one frame callback pending at  *)
(* any time, also when the callbacks of tasks call schedule and cancel     *)
(* inside a tick.                                                          *)
(***************************************************************************)
C28_AtMostOneFramePending == Len(animation.requested) <= 1

(***************************************************************************)
(* C30: no captured stroke is lost while drawing is enabled, also when a   *)
(* second start event arrives while a stroke is in progress: after a step  *)
(* that starts a stroke while another one is in progress, the stroke that  *)
(* was in progress is still the current one or is in the list of strokes   *)
(* that getDrawingData returns.                                            *)
(***************************************************************************)
C30_SecondStartKeepsStroke ==
    [][(/\ drawingManager.isEnabled
        /\ drawingManager.currentStroke # 0
        /\ Len(drawingManager'.objects) > Len(drawingManager.objects))
       => \/ drawingManager'.currentStroke = drawingManager.currentStroke
          \/ \E i \in DOMAIN drawingManager'.strokes :
                drawingManager'.strokes[i] = drawingManager.currentStroke]_vars

(***************************************************************************)
(* C29: under any interleaving of concurrent saveExercise, updateExercise  *)
(* and deleteExercise calls, once all of them have settled every stored    *)
(* thumbnail, in memory and in localStorage, belongs to an exercise of the *)
(* list.                                                                   *)
(***************************************************************************)
allSettled == \A i \in DOMAIN calls : calls[i].awaiting \in { "fulfilled", "rejected" }

persistedThumbnails(m) ==
    IF m.localStorage.handwriting_thumbnails = << >> THEN NoThumbnails
    ELSE m.localStorage.handwriting_thumbnails[1]

C29_ThumbnailsBelongToExercises ==
    allSettled =>
        \A id \in DOMAIN storage.thumbnails \cup DOMAIN persistedThumbnails(storage) :
            \E i \in DOMAIN storage.exercises : storage.exercises[i].id = id

=============================================================================
